---- MODULE Spec2Model ----
(***************************************************************************)
(* State-machine model of the realtime subscription client:                *)
(* TokenSubscription (connection lifecycle, reconnect, frame dispatch,     *)
(* chunk sub-streams) driving a StreamFanout.                              *)
(*                                                                         *)
(* JavaScript scheduling: a task (a call by the user, a transport event, a *)
(* timer, an HTTP response) runs to completion together with the microtask *)
(* continuations it makes ready.  So the continuation of an await on an    *)
(* already available value belongs to the action of the task that reached  *)
(* the await, unless that task is the user's own call: the user's code     *)
(* goes on after connect() returns, before the continuation runs.          *)
(***************************************************************************)
EXTENDS Integers, Sequences, FiniteSets, TLC

\* ---- bounds of the model ------------------------------------------------
MaxAttempts == 3        \* #connect() invocations (= transports) explored
MaxUserOps == 3         \* calls made by the user's code (connect, close, streams)
MaxFrames == 1          \* inbound frames delivered by the transports
MaxFrameRun == 2        \* inbound frames of the frame-dispatch scenario
MaxChunkRun == 4        \* inbound frames of the chunk-reassembly scenario
MaxFanoutOps == 5       \* createStream/write/cancel/close calls of the fanout scenario
MaxFanoutStreams == 2   \* streams created in the fanout scenario
MaxTokenCalls == 2      \* token requests of the token scenario

\* ---- program constants ---------------------------------------------------
maxReconnectAttempts == 5
reconnectDelay == 1000
NormalClosure == 1000

\* the delay with the exponent off by one
ReconnectDelayDoubled(k) == reconnectDelay * 2^k

\* the delay of the reconnect scheduled when the counter becomes k:
\* this.#reconnectDelay * Math.pow(2, this.#reconnectAttempts - 1)
ReconnectDelayFor(k) == reconnectDelay * 2^(k - 1)

\* the delays a reconnect timer can have, in milliseconds; timers[k] counts the
\* pending timers of delay TimerDelays[k]
TimerDelays == <<1000, 2000, 4000, 8000, 16000>>
TimerSlot(delay) == CHOOSE k \in 1..maxReconnectAttempts : TimerDelays[k] = delay

\* a run of abnormal closures that uses up the reconnect budget
ReconnectRun == maxReconnectAttempts + 1

AttemptIds == 1..(IF MaxAttempts > ReconnectRun THEN MaxAttempts ELSE ReconnectRun)
CallIds == 1..MaxUserOps
ConsumerIds == 1..MaxUserOps
MaxSubs == IF MaxFrameRun > MaxChunkRun THEN MaxFrameRun ELSE MaxChunkRun
SubIds == 1..(IF MaxFrames > MaxSubs THEN MaxFrames ELSE MaxSubs)
StreamIds == {"A", "B"}
Payloads == {1, 2}
CloseCodes == {1000, 1006}
FrameKinds == {"datastream-start", "datastream-end"}

VARIABLES
  \* TokenSubscription fields
  running,            \* #running
  ws,                 \* #ws: 0 is null, otherwise the transport's id
  reconnectAttempts,  \* #reconnectAttempts
  connectionPromise,  \* #connectionPromise: 0 is null, otherwise the #connect() invocation
  chunkStreams,       \* #chunkStreams: stream id -> sub-stream object (0: no entry)
  fanout,             \* #fanout: the live set of the StreamFanout
  tokenKey,           \* token.key is present
  platform,           \* "ok"; "nows": no WebSocket global; "badurl": getWsUrl() throws
  \* the environment and the suspended async functions
  attempts,           \* the #connect() invocations and where each is suspended
  sockets,            \* the WebSocket objects created so far
  timers,             \* pending setTimeout reconnect timers, by delay (see TimerDelays)
  calls,              \* the user's connect() calls and their outcomes
  streams,            \* the consumer streams handed out by the fanout
  subs,               \* the chunk sub-stream objects (ReadableStream + controller)
  validating,         \* data frames suspended in "await schema.validate(...)"
  readers,            \* the consumers' read cursors on the fanout's streams
  loops,              \* the useCallback() read loops, by stream
  acq,                \* the token request in progress and its HTTP attempts
  \* history
  nFrames,            \* frames delivered so far
  lastFrame,          \* the frame delivered last
  written,            \* the messages passed to #fanout.write(), in order
  userOps,            \* calls made by the user so far
  closed,             \* "no"; after close(), until the user calls connect(): "timer" when
                      \* a reconnect timer was pending at the call, otherwise "yes"
  lastOp,             \* what ran last: "close", "close2" (a close() right after a
                      \* close()), "normalClosure" / "abnormalClosure" (#handleClose with
                      \* code 1000 / another code), "enqueueFailed" (a write() of the
                      \* fanout scenario that met a cancelled stream), "fanoutClose"
                      \* (a close() of the fanout scenario), "other"
  lastDerive,         \* the latest answer of lazilyGetSubscriptionToken
  abnormalRun         \* abnormal closures handled in a row (no normal closure, no close())

sessionVars == <<running, ws, reconnectAttempts, connectionPromise, chunkStreams, fanout>>
configVars == <<tokenKey, platform>>
envVars == <<attempts, sockets, timers, calls, streams, subs>>
histVars == <<nFrames, userOps, closed, lastOp, lastDerive, abnormalRun>>
frameVars == <<validating, lastFrame, written>>
auxVars == <<readers, loops, acq>>
vars == <<sessionVars, configVars, envVars, histVars, frameVars, auxVars>>

NoSocket == [readyState |-> "none", attached |-> FALSE, closeDue |-> "no", token |-> "none",
             closes |-> 0, errored |-> FALSE, pongs |-> 0]
NoAttempt == [pc |-> "none", origin |-> "none", timerCallers |-> 0,
              whileOpen |-> FALSE, afterClose |-> FALSE]
NoCall == [att |-> 0, joined |-> FALSE, status |-> "none"]
NoStream == [status |-> "none", queue |-> <<>>, transform |-> "none"]
NoReader == [from |-> 0, left |-> 0, nread |-> 0, end |-> "no"]
NoLoop == [pc |-> "none", locked |-> FALSE, calls |-> <<>>]
NoHelperCall == [channel |-> "-", provided |-> "-", ok |-> FALSE, error |-> <<>>, key |-> ""]
NoRequest == [n |-> 0, pc |-> "idle", fallback |-> FALSE, sent |-> <<>>, responses |-> <<>>,
              result |-> "none", token |-> "none", error |-> <<>>, helper |-> NoHelperCall]
NoSub == [id |-> "none", state |-> "none", queue |-> <<>>]
NoFrame == [kind |-> "none", topic |-> "-", id |-> "-", data |-> 0, ok |-> TRUE, slow |-> FALSE]

Init ==
  /\ running = FALSE
  /\ ws = 0
  /\ reconnectAttempts = 0
  /\ connectionPromise = 0
  /\ chunkStreams = [i \in StreamIds |-> 0]
  /\ fanout = {}
  /\ tokenKey \in BOOLEAN
  /\ platform \in {"ok", "nows", "badurl"}
  /\ attempts = [a \in AttemptIds |-> NoAttempt]
  /\ sockets = [a \in AttemptIds |-> NoSocket]
  /\ timers = [k \in 1..maxReconnectAttempts |-> 0]
  /\ calls = [c \in CallIds |-> NoCall]
  /\ streams = [i \in ConsumerIds |-> NoStream]
  /\ subs = [s \in SubIds |-> NoSub]
  /\ validating = {}
  /\ readers = [i \in ConsumerIds |-> NoReader]
  /\ loops = [i \in ConsumerIds |-> NoLoop]
  /\ acq = NoRequest
  /\ lastFrame = NoFrame
  /\ written = <<>>
  /\ nFrames = 0
  /\ userOps = 0
  /\ closed = "no"
  /\ lastOp = "other"
  /\ lastDerive = "none"
  /\ abnormalRun = 0

\* ---- scheduling ----------------------------------------------------------
\* A #connect() invocation started by the user's call waits for the microtask
\* queue: no task can start before it has run.
\* the read of the useCallback() loop on stream i can return: a value is
\* pending on the stream, or the stream has ended
LoopReady(i) ==
  /\ loops[i].pc = "reading"
  /\ \/ readers[i].nread < Len(streams[i].queue)
     \/ streams[i].status \in {"closed", "cancelled"}

MicrotaskPending ==
  \/ \E a \in AttemptIds : attempts[a].pc \in {"wsurl", "rejected"}
  \/ \E i \in ConsumerIds : LoopReady(i)

\* A transport that failed has dispatched "error" and still owes its "close"
\* (both events belong to one task).
CloseDue == \E s \in AttemptIds : sockets[s].closeDue # "no"

\* A new task (transport event, timer, HTTP response) can start.
TaskCanStart == ~MicrotaskPending /\ ~CloseDue

\* The user's code can run: as a task of its own, after its own call of
\* connect(), or between "error" and "close" when the rejection of connect()
\* was delivered to it.
UserCanRun == \A s \in AttemptIds : sockets[s].closeDue # "silent"

nAttempts == Cardinality({a \in AttemptIds : attempts[a].pc # "none"})
nCalls == Cardinality({c \in CallIds : calls[c].status # "none"})
nStreams == Cardinality({i \in ConsumerIds : streams[i].status # "none"})
nSubs == Cardinality({s \in SubIds : subs[s].state # "none"})

SessionOpen ==
  /\ running
  /\ ws # 0
  /\ sockets[ws].readyState = "OPEN"
  /\ sockets[ws].attached

\* ---- StreamFanout ----------------------------------------------------------
\* the transforms of the streams: none, (n) => n * 2, (n) => n + 10
Transforms == {"none", "double", "plus10"}

Apply(transform, v) ==
  CASE transform = "double" -> v * 2
    [] transform = "plus10" -> v + 10
    [] OTHER -> v

\* createStream(transform) that hands the new stream what was written so far
FanoutCreateStreamReplays(strs, i, transform) ==
  [strs EXCEPT ![i] = [status |-> "open",
                       queue |-> [k \in 1..Len(written) |-> Apply(transform, written[k])],
                       transform |-> transform]]

\* createStream(transform): a new stream, registered in the live set.
FanoutCreateStream(strs, i, transform) ==
  [strs EXCEPT ![i] = [status |-> "open", queue |-> <<>>, transform |-> transform]]

\* write(value) that puts the value in front of the stream's pending values
FanoutWriteNewestFirst(strs, live, msg) ==
  [i \in ConsumerIds |->
     IF i \in live /\ strs[i].status = "open"
       THEN [strs[i] EXCEPT !.queue = <<Apply(strs[i].transform, msg)>> \o @]
       ELSE strs[i]]

\* write(value) that gives up at the first stream whose enqueue fails
FanoutWriteStopsAtCancelled(strs, live, msg) ==
  [i \in ConsumerIds |->
     IF /\ i \in live /\ strs[i].status = "open"
        /\ \A j \in live : j < i => strs[j].status = "open"
       THEN [strs[i] EXCEPT !.queue = Append(@, Apply(strs[i].transform, msg))]
       ELSE strs[i]]

\* write(value) that maps the value once, through the transform of the stream
\* created first, for all streams
FanoutWriteSharedTransform(strs, live, msg) ==
  [i \in ConsumerIds |->
     IF i \in live /\ strs[i].status = "open"
       THEN [strs[i] EXCEPT !.queue =
               Append(@, Apply(strs[CHOOSE j \in live : \A k \in live : j <= k].transform, msg))]
       ELSE strs[i]]

\* write(value): the value, mapped through the stream's transform, is enqueued
\* on every stream of the live set; the enqueue fails on a stream its consumer
\* cancelled.
FanoutWrite(strs, live, msg) ==
  [i \in ConsumerIds |->
     IF i \in live /\ strs[i].status = "open"
       THEN [strs[i] EXCEPT !.queue = Append(@, Apply(strs[i].transform, msg))]
       ELSE strs[i]]

\* write(value): a stream whose enqueue failed is removed from the live set
FanoutLiveAfterWrite(strs, live) == {i \in live : strs[i].status = "open"}

\* close() that ends the streams with an error
FanoutCloseErrors(strs, live) ==
  [i \in ConsumerIds |->
     IF i \in live /\ strs[i].status = "open"
       THEN [strs[i] EXCEPT !.status = "errored"] ELSE strs[i]]

\* close(): every stream of the live set gets end-of-sequence.
FanoutClose(strs, live) ==
  [i \in ConsumerIds |->
     IF i \in live /\ strs[i].status = "open"
       THEN [strs[i] EXCEPT !.status = "closed"] ELSE strs[i]]

\* size()
FanoutSize == Cardinality(fanout)

\* ---- TokenSubscription: helpers ----------------------------------------------
\* #cleanupWebSocket() that leaves the transport as it is
CleanupLeavesTransport(socks, w) == socks

\* #cleanupWebSocket(): detaches the four callbacks and closes the transport when
\* it is OPEN or CONNECTING (the caller sets #ws to null).
CleanupWebSocket(socks, w) ==
  IF w = 0 THEN socks
  ELSE [socks EXCEPT ![w] =
          [readyState |-> IF @.readyState \in {"OPEN", "CONNECTING"}
                            THEN "CLOSING" ELSE @.readyState,
           attached |-> FALSE,
           closeDue |-> @.closeDue,
           token |-> @.token,
           closes |-> IF @.readyState \in {"OPEN", "CONNECTING"}
                        THEN @.closes + 1 ELSE @.closes,
           errored |-> @.errored,
           pongs |-> @.pongs]]

\* new WebSocket(await this.getWsUrl(key)) with the four callbacks attached
NewSocket(key) ==
  [readyState |-> "CONNECTING", attached |-> TRUE, closeDue |-> "no", token |-> key,
   closes |-> 0, errored |-> FALSE, pongs |-> 0]

\* the table is cleared without closing the controllers
KeepChunkControllers(sb, table) == sb

\* "Close all chunk streams": controller.close() on every table entry.
CloseChunkControllers(sb, table) ==
  [s \in SubIds |->
     IF \E id \in StreamIds : table[id] = s
       THEN [sb[s] EXCEPT !.state = "closed"] ELSE sb[s]]

EmptyTable == [id \in StreamIds |-> 0]

Min(a, b) == IF a < b THEN a ELSE b

\* the promise of #connect() invocation a settles: callers that awaited it
SettledCalls(a, outcome) ==
  [c \in CallIds |->
     IF calls[c].att = a /\ calls[c].status = "pending"
       THEN [calls[c] EXCEPT !.att = 0, !.status = outcome] ELSE calls[c]]

UserAwaits(a) == \E c \in CallIds : calls[c].att = a /\ calls[c].status = "pending"

\* the catch handler of a reconnect timer's connect() closes the fanout
TimerCatchCloses(rec, outcome) ==
  /\ outcome = "rejected"
  /\ rec.timerCallers > 0
  /\ reconnectAttempts >= maxReconnectAttempts

\* connect() after "await this.#connectionPromise": the finally block, and the
\* continuations of the callers of connect()
Settle(a, rec, outcome) ==
  /\ attempts' = [attempts EXCEPT ![a] = [NoAttempt EXCEPT !.pc = "done"]]
  /\ connectionPromise' = 0
  /\ calls' = SettledCalls(a, outcome)
  /\ IF TimerCatchCloses(rec, outcome)
       THEN /\ streams' = FanoutClose(streams, fanout)
            /\ fanout' = {}
       ELSE UNCHANGED <<streams, fanout>>

\* #connect() from "Clean up existing connection if any" on
OpenTransport(a, rec, key) ==
  IF platform = "badurl"
    THEN /\ sockets' = CleanupWebSocket(sockets, ws)
         /\ ws' = 0
         /\ Settle(a, rec, "rejected")
    ELSE /\ sockets' = [CleanupWebSocket(sockets, ws) EXCEPT ![a] = NewSocket(key)]
         /\ ws' = a
         /\ attempts' = [attempts EXCEPT ![a] = [rec EXCEPT !.pc = "waiting"]]
         /\ UNCHANGED <<connectionPromise, calls, streams, fanout>>

\* connect() with #connectionPromise null: #connect() up to where it suspends.
\* Sets attempts, sockets, ws, connectionPromise, calls, streams, fanout.
StartConnect(a, origin, newCalls) ==
  LET rec == [pc |-> "none", origin |-> origin,
              timerCallers |-> IF origin = "timer" THEN 1 ELSE 0,
              whileOpen |-> SessionOpen,
              afterClose |-> (origin = "timer" /\ closed = "timer")]
  IN
  IF platform = "nows"
    THEN /\ attempts' = [attempts EXCEPT ![a] = [rec EXCEPT !.pc = "rejected"]]
         /\ connectionPromise' = a
         /\ calls' = newCalls
         /\ UNCHANGED <<sockets, ws, streams, fanout>>
  ELSE IF ~tokenKey
    THEN /\ attempts' = [attempts EXCEPT ![a] = [rec EXCEPT !.pc = "derive"]]
         /\ connectionPromise' = a
         /\ calls' = newCalls
         /\ UNCHANGED <<sockets, ws, streams, fanout>>
  ELSE IF origin = "user"
    THEN /\ attempts' = [attempts EXCEPT ![a] = [rec EXCEPT !.pc = "wsurl"]]
         /\ connectionPromise' = a
         /\ calls' = newCalls
         /\ sockets' = CleanupWebSocket(sockets, ws)
         /\ ws' = 0
         /\ UNCHANGED <<streams, fanout>>
    ELSE IF platform = "badurl"
      THEN /\ sockets' = CleanupWebSocket(sockets, ws)
           /\ ws' = 0
           /\ attempts' = [attempts EXCEPT ![a] = [NoAttempt EXCEPT !.pc = "done"]]
           /\ connectionPromise' = 0
           /\ calls' = newCalls
           /\ IF TimerCatchCloses(rec, "rejected")
                THEN /\ streams' = FanoutClose(streams, fanout)
                     /\ fanout' = {}
                ELSE UNCHANGED <<streams, fanout>>
      ELSE /\ sockets' = [CleanupWebSocket(sockets, ws) EXCEPT ![a] = NewSocket("given")]
           /\ ws' = a
           /\ attempts' = [attempts EXCEPT ![a] = [rec EXCEPT !.pc = "waiting"]]
           /\ connectionPromise' = a
           /\ calls' = newCalls
           /\ UNCHANGED <<streams, fanout>>

\* ---- TokenSubscription: public operations ------------------------------------
\* connect(), called by the user (limit: the transports explored)
ConnectUpTo(limit) ==
  /\ UserCanRun
  /\ userOps < MaxUserOps
  /\ userOps' = userOps + 1
  /\ LET c == nCalls + 1 IN
     IF connectionPromise # 0
       THEN /\ calls' = [calls EXCEPT ![c] =
                           [att |-> connectionPromise, joined |-> TRUE, status |-> "pending"]]
            /\ UNCHANGED <<attempts, sockets, ws, connectionPromise, streams, fanout>>
       ELSE /\ nAttempts < limit
            /\ StartConnect(nAttempts + 1, "user",
                 [calls EXCEPT ![c] =
                    [att |-> nAttempts + 1, joined |-> FALSE, status |-> "pending"]])
  /\ closed' = "no"
  /\ lastOp' = "other"
  /\ UNCHANGED auxVars
  /\ UNCHANGED frameVars
  /\ abnormalRun' = 0
  /\ UNCHANGED <<running, reconnectAttempts, chunkStreams, configVars,
                 timers, subs, nFrames, lastDerive>>

\* connect() without the test of #connectionPromise: every call runs #connect()
ConnectAlwaysStarts ==
  /\ UserCanRun
  /\ userOps < MaxUserOps
  /\ userOps' = userOps + 1
  /\ nAttempts < MaxAttempts
  /\ StartConnect(nAttempts + 1, "user",
       [calls EXCEPT ![nCalls + 1] =
          [att |-> nAttempts + 1, joined |-> FALSE, status |-> "pending"]])
  /\ closed' = "no"
  /\ lastOp' = "other"
  /\ UNCHANGED auxVars
  /\ UNCHANGED frameVars
  /\ abnormalRun' = 0
  /\ UNCHANGED <<running, reconnectAttempts, chunkStreams, configVars,
                 timers, subs, nFrames, lastDerive>>

Connect == ConnectUpTo(MaxAttempts)

\* #connect() resumes after "await this.getWsUrl(key)": new WebSocket + callbacks
CreateTransport(a) ==
  /\ attempts[a].pc = "wsurl"
  /\ IF platform = "badurl"
       THEN /\ Settle(a, attempts[a], "rejected")
            /\ UNCHANGED <<sockets, ws>>
       ELSE /\ sockets' = [sockets EXCEPT ![a] = NewSocket("given")]
            /\ ws' = a
            /\ attempts' = [attempts EXCEPT ![a].pc = "waiting"]
            /\ UNCHANGED <<connectionPromise, calls, streams, fanout>>
  /\ lastOp' = "other"
  /\ UNCHANGED auxVars
  /\ UNCHANGED frameVars
  /\ UNCHANGED <<running, reconnectAttempts, chunkStreams, configVars,
                 timers, subs, nFrames, userOps, closed, lastDerive, abnormalRun>>

\* connect() resumes after #connect() threw before creating anything
ConnectFinally(a) ==
  /\ attempts[a].pc = "rejected"
  /\ Settle(a, attempts[a], "rejected")
  /\ lastOp' = "other"
  /\ UNCHANGED auxVars
  /\ UNCHANGED frameVars
  /\ UNCHANGED <<running, ws, reconnectAttempts, chunkStreams, configVars,
                 sockets, timers, subs, nFrames, userOps, closed, lastDerive, abnormalRun>>

\* #connect() without "if (!key) throw": an empty answer is used as the key
DeriveDoneNoKeyCheck(a, res) ==
  /\ TaskCanStart
  /\ attempts[a].pc = "derive"
  /\ lastDerive' = res
  /\ IF res \in {"key", "nokey"}
       THEN OpenTransport(a, attempts[a], IF res = "key" THEN "derived" ELSE "none")
       ELSE /\ Settle(a, attempts[a], "rejected")
            /\ UNCHANGED <<sockets, ws>>
  /\ lastOp' = "other"
  /\ UNCHANGED auxVars
  /\ UNCHANGED frameVars
  /\ UNCHANGED <<running, reconnectAttempts, chunkStreams, configVars,
                 timers, subs, nFrames, userOps, closed, abnormalRun>>

\* lazilyGetSubscriptionToken() answers: a key, no key, or an error
DeriveDone(a, res) ==
  /\ TaskCanStart
  /\ attempts[a].pc = "derive"
  /\ lastDerive' = res
  /\ IF res = "key"
       THEN OpenTransport(a, attempts[a], "derived")
       ELSE /\ Settle(a, attempts[a], "rejected")
            /\ UNCHANGED <<sockets, ws>>
  /\ lastOp' = "other"
  /\ UNCHANGED auxVars
  /\ UNCHANGED frameVars
  /\ UNCHANGED <<running, reconnectAttempts, chunkStreams, configVars,
                 timers, subs, nFrames, userOps, closed, abnormalRun>>

\* close() without the early return, closing the transport it still refers to
CloseUnguarded ==
  /\ UserCanRun
  /\ userOps < MaxUserOps
  /\ userOps' = userOps + 1
  /\ closed' = IF \E k \in 1..maxReconnectAttempts : timers[k] > 0 THEN "timer" ELSE "yes"
  /\ lastOp' = IF lastOp \in {"close", "close2"} THEN "close2" ELSE "close"
  /\ UNCHANGED auxVars
  /\ UNCHANGED frameVars
  /\ abnormalRun' = 0
  /\ running' = FALSE
  /\ reconnectAttempts' = maxReconnectAttempts
  /\ sockets' = IF ws = 0 THEN sockets
                ELSE [sockets EXCEPT ![ws].attached = FALSE,
                                     ![ws].readyState = "CLOSING",
                                     ![ws].closes = @ + 1]
  /\ ws' = ws
  /\ subs' = CloseChunkControllers(subs, chunkStreams)
  /\ chunkStreams' = EmptyTable
  /\ streams' = FanoutClose(streams, fanout)
  /\ fanout' = {}
  /\ UNCHANGED <<connectionPromise, configVars, attempts, timers, calls,
                 nFrames, lastDerive>>

\* close()
Close ==
  /\ UserCanRun
  /\ userOps < MaxUserOps
  /\ userOps' = userOps + 1
  /\ closed' = IF \E k \in 1..maxReconnectAttempts : timers[k] > 0 THEN "timer" ELSE "yes"
  /\ lastOp' = IF lastOp \in {"close", "close2"} THEN "close2" ELSE "close"
  /\ UNCHANGED auxVars
  /\ UNCHANGED frameVars
  /\ abnormalRun' = 0
  /\ IF ~running /\ ws = 0
       THEN UNCHANGED <<running, reconnectAttempts, sockets, ws,
                        subs, chunkStreams, streams, fanout>>
       ELSE /\ running' = FALSE
            /\ reconnectAttempts' = maxReconnectAttempts
            /\ sockets' = CleanupWebSocket(sockets, ws)
            /\ ws' = 0
            /\ subs' = CloseChunkControllers(subs, chunkStreams)
            /\ chunkStreams' = EmptyTable
            /\ streams' = FanoutClose(streams, fanout)
            /\ fanout' = {}
  /\ UNCHANGED <<connectionPromise, configVars, attempts, timers, calls,
                 nFrames, lastDerive>>

\* getJsonStream()
GetJsonStream ==
  /\ UserCanRun
  /\ userOps < MaxUserOps
  /\ userOps' = userOps + 1
  /\ streams' = FanoutCreateStream(streams, nStreams + 1, "none")
  /\ fanout' = fanout \cup {nStreams + 1}
  /\ lastOp' = "other"
  /\ UNCHANGED auxVars
  /\ UNCHANGED frameVars
  /\ UNCHANGED <<running, ws, reconnectAttempts, connectionPromise, chunkStreams,
                 configVars, attempts, sockets, timers, calls, subs,
                 nFrames, closed, lastDerive, abnormalRun>>

\* a consumer cancels its stream: the fanout drops it from the live set
CancelStream(i) ==
  /\ UserCanRun
  /\ userOps < MaxUserOps
  /\ userOps' = userOps + 1
  /\ streams[i].status = "open"
  /\ streams' = [streams EXCEPT ![i].status = "cancelled", ![i].queue = <<>>]
  /\ fanout' = fanout \ {i}
  /\ lastOp' = "other"
  /\ UNCHANGED auxVars
  /\ UNCHANGED frameVars
  /\ UNCHANGED <<running, ws, reconnectAttempts, connectionPromise, chunkStreams,
                 configVars, attempts, sockets, timers, calls, subs,
                 nFrames, closed, lastDerive, abnormalRun>>

\* a sub-stream without the cancel callback: the entry stays
CancelSubKeepsEntry(s) ==
  /\ UserCanRun
  /\ userOps < MaxUserOps
  /\ userOps' = userOps + 1
  /\ subs[s].state = "open"
  /\ subs' = [subs EXCEPT ![s].state = "cancelled"]
  /\ lastOp' = "other"
  /\ UNCHANGED auxVars
  /\ UNCHANGED frameVars
  /\ UNCHANGED <<running, ws, reconnectAttempts, connectionPromise, fanout, chunkStreams,
                 configVars, attempts, sockets, timers, calls, streams,
                 nFrames, closed, lastDerive, abnormalRun>>

\* a consumer cancels a chunk sub-stream: its cancel callback deletes the entry
\* of its stream id
CancelSub(s) ==
  /\ UserCanRun
  /\ userOps < MaxUserOps
  /\ userOps' = userOps + 1
  /\ subs[s].state = "open"
  /\ subs' = [subs EXCEPT ![s].state = "cancelled"]
  /\ chunkStreams' = [chunkStreams EXCEPT ![subs[s].id] = 0]
  /\ lastOp' = "other"
  /\ UNCHANGED auxVars
  /\ UNCHANGED frameVars
  /\ UNCHANGED <<running, ws, reconnectAttempts, connectionPromise, fanout,
                 configVars, attempts, sockets, timers, calls, streams,
                 nFrames, closed, lastDerive, abnormalRun>>

\* ---- TokenSubscription: transport callbacks -----------------------------------
\* #handleClose(event) without the test of the normal-closure code
HandleCloseAnyCode(code) ==
  /\ running' = FALSE
  /\ subs' = CloseChunkControllers(subs, chunkStreams)
  /\ chunkStreams' = EmptyTable
  /\ abnormalRun' = IF code = NormalClosure THEN 0 ELSE Min(abnormalRun + 1, ReconnectRun)
  /\ IF ~running
       THEN /\ streams' = FanoutClose(streams, fanout)
            /\ fanout' = {}
            /\ UNCHANGED <<reconnectAttempts, timers>>
     ELSE IF reconnectAttempts < maxReconnectAttempts
       THEN /\ reconnectAttempts' = reconnectAttempts + 1
            /\ timers' = [timers EXCEPT ![TimerSlot(ReconnectDelayFor(reconnectAttempts + 1))] = @ + 1]
            /\ UNCHANGED <<streams, fanout>>
       ELSE /\ streams' = FanoutClose(streams, fanout)
            /\ fanout' = {}
            /\ UNCHANGED <<reconnectAttempts, timers>>

\* #handleClose(event) that closes the fanout on every closure, also when it
\* schedules a reconnect
HandleCloseEndsStreams(code) ==
  /\ running' = FALSE
  /\ subs' = CloseChunkControllers(subs, chunkStreams)
  /\ chunkStreams' = EmptyTable
  /\ abnormalRun' = IF code = NormalClosure THEN 0 ELSE Min(abnormalRun + 1, ReconnectRun)
  /\ streams' = FanoutClose(streams, fanout)
  /\ fanout' = {}
  /\ IF code # NormalClosure /\ running /\ reconnectAttempts < maxReconnectAttempts
       THEN /\ reconnectAttempts' = reconnectAttempts + 1
            /\ timers' = [timers EXCEPT ![TimerSlot(ReconnectDelayFor(reconnectAttempts + 1))] = @ + 1]
       ELSE UNCHANGED <<reconnectAttempts, timers>>

\* #handleClose(event)
HandleClose(code) ==
  /\ running' = FALSE
  /\ subs' = CloseChunkControllers(subs, chunkStreams)
  /\ chunkStreams' = EmptyTable
  /\ abnormalRun' = IF code = NormalClosure THEN 0 ELSE Min(abnormalRun + 1, ReconnectRun)
  /\ IF code = NormalClosure \/ ~running
       THEN /\ streams' = FanoutClose(streams, fanout)
            /\ fanout' = {}
            /\ UNCHANGED <<reconnectAttempts, timers>>
     ELSE IF reconnectAttempts < maxReconnectAttempts
       THEN /\ reconnectAttempts' = reconnectAttempts + 1
            /\ timers' = [timers EXCEPT ![TimerSlot(ReconnectDelayFor(reconnectAttempts + 1))] = @ + 1]
            /\ UNCHANGED <<streams, fanout>>
       ELSE /\ streams' = FanoutClose(streams, fanout)
            /\ fanout' = {}
            /\ UNCHANGED <<reconnectAttempts, timers>>

\* onopen without "this.#reconnectAttempts = 0"
SockOpenKeepsCounter(s) ==
  /\ TaskCanStart
  /\ sockets[s].readyState = "CONNECTING"
  /\ sockets' = [sockets EXCEPT ![s].readyState = "OPEN"]
  /\ UNCHANGED reconnectAttempts
  /\ IF sockets[s].attached
       THEN /\ running' = TRUE
            /\ IF attempts[s].pc = "waiting"
                 THEN Settle(s, attempts[s], "resolved")
                 ELSE UNCHANGED <<attempts, connectionPromise, calls, streams, fanout>>
       ELSE UNCHANGED <<running, attempts, connectionPromise, calls, streams, fanout>>
  /\ lastOp' = "other"
  /\ UNCHANGED auxVars
  /\ UNCHANGED frameVars
  /\ UNCHANGED <<ws, chunkStreams, configVars, timers, subs,
                 nFrames, userOps, closed, lastDerive, abnormalRun>>

\* the transport is established: onopen
SockOpen(s) ==
  /\ TaskCanStart
  /\ sockets[s].readyState = "CONNECTING"
  /\ sockets' = [sockets EXCEPT ![s].readyState = "OPEN"]
  /\ IF sockets[s].attached
       THEN /\ reconnectAttempts' = 0
            /\ running' = TRUE
            /\ IF attempts[s].pc = "waiting"
                 THEN Settle(s, attempts[s], "resolved")
                 ELSE UNCHANGED <<attempts, connectionPromise, calls, streams, fanout>>
       ELSE UNCHANGED <<reconnectAttempts, running, attempts, connectionPromise, calls,
                        streams, fanout>>
  /\ lastOp' = "other"
  /\ UNCHANGED auxVars
  /\ UNCHANGED frameVars
  /\ UNCHANGED <<ws, chunkStreams, configVars, timers, subs,
                 nFrames, userOps, closed, lastDerive, abnormalRun>>

\* the transport fails before it is established: onerror (its close event follows
\* in the same task, after the continuations the rejection made ready)
SockError(s) ==
  /\ TaskCanStart
  /\ sockets[s].readyState = "CONNECTING"
  /\ sockets' = [sockets EXCEPT ![s].readyState = "CLOSED",
                                ![s].errored = TRUE,
                                ![s].closeDue = IF sockets[s].attached /\ UserAwaits(s)
                                                  THEN "notified" ELSE "silent"]
  /\ IF sockets[s].attached /\ attempts[s].pc = "waiting"
       THEN Settle(s, attempts[s], "rejected")
       ELSE UNCHANGED <<attempts, connectionPromise, calls, streams, fanout>>
  /\ lastOp' = "other"
  /\ UNCHANGED auxVars
  /\ UNCHANGED frameVars
  /\ UNCHANGED <<running, ws, reconnectAttempts, chunkStreams, configVars,
                 timers, subs, nFrames, userOps, closed, lastDerive, abnormalRun>>

\* the transport is closed by the peer or the network: onclose
SockClose(s, code) ==
  /\ \/ TaskCanStart /\ sockets[s].readyState \in {"OPEN", "CONNECTING"}
     \/ ~MicrotaskPending /\ sockets[s].closeDue # "no" /\ code # NormalClosure
  /\ sockets' = [sockets EXCEPT ![s].readyState = "CLOSED", ![s].closeDue = "no"]
  /\ IF sockets[s].attached
       THEN HandleClose(code)
       ELSE UNCHANGED <<running, subs, chunkStreams, abnormalRun, streams, fanout,
                        reconnectAttempts, timers>>
  /\ lastOp' = IF sockets[s].attached /\ code = NormalClosure THEN "normalClosure"
                ELSE IF sockets[s].attached THEN "abnormalClosure" ELSE "other"
  /\ UNCHANGED auxVars
  /\ UNCHANGED frameVars
  /\ UNCHANGED <<ws, connectionPromise, configVars, attempts, calls,
                 nFrames, userOps, closed, lastDerive>>

\* a reconnect timer fires: this.connect().catch(...)
TimerFireUpTo(k, limit) ==
  /\ TaskCanStart
  /\ timers[k] > 0
  /\ timers' = [timers EXCEPT ![k] = @ - 1]
  /\ IF connectionPromise # 0
       THEN /\ attempts' = [attempts EXCEPT ![connectionPromise].timerCallers = @ + 1]
            /\ UNCHANGED <<sockets, ws, connectionPromise, calls, streams, fanout>>
       ELSE /\ nAttempts < limit
            /\ StartConnect(nAttempts + 1, "timer", calls)
  /\ lastOp' = "other"
  /\ UNCHANGED auxVars
  /\ UNCHANGED frameVars
  /\ UNCHANGED <<running, reconnectAttempts, chunkStreams, configVars, subs,
                 nFrames, userOps, closed, lastDerive, abnormalRun>>

TimerFire(k) == TimerFireUpTo(k, MaxAttempts)

\* ---- TokenSubscription: inbound frames ----------------------------------------
\* the topics of the subscription: T has a schema, U has none; X is not subscribed
Topics == {"T", "U"}
HasSchema(topic) == topic = "T"

\* schema["~standard"].validate(data): the value of a payload that passes
Validated(data) == data + 10

\* the frames a transport can deliver
Frame(kind, topic, id, data, ok, slow) ==
  [kind |-> kind, topic |-> topic, id |-> id, data |-> data, ok |-> ok, slow |-> slow]

DataFrames ==
  {Frame("data", "T", "-", 1, ok, slow) : ok \in BOOLEAN, slow \in BOOLEAN}
    \cup {Frame("data", "U", "-", 1, TRUE, FALSE), Frame("data", "X", "-", 1, TRUE, FALSE)}

StartEndFrames ==
  {Frame(kind, "U", id, 0, TRUE, FALSE) : kind \in FrameKinds, id \in StreamIds}

ChunkFrames ==
  {Frame("chunk", "U", id, d, TRUE, FALSE) : id \in StreamIds, d \in Payloads}

ControlFrames ==
  {Frame("malformed", "-", "-", 0, TRUE, FALSE), Frame("ping", "-", "-", 0, TRUE, FALSE)}

\* the message built from frame f, arrived as number seq
Message(kind, f, seq, data, stream) ==
  [seq |-> seq, kind |-> kind, topic |-> f.topic, data |-> data,
   streamId |-> f.id, stream |-> stream, running |-> running]

\* this.#fanout.write(msg)
Write(msg) ==
  /\ streams' = FanoutWrite(streams, fanout, msg)
  /\ written' = Append(written, msg)

\* #handleDataMessage(msg) that ignores the issues of the validation
HandleDataMessageIgnoresIssues(f) ==
  /\ UNCHANGED <<subs, chunkStreams, sockets>>
  /\ IF f.topic \notin Topics
       THEN UNCHANGED <<streams, written, validating>>
     ELSE IF ~HasSchema(f.topic)
       THEN /\ Write(Message("data", f, nFrames + 1, f.data, 0))
            /\ UNCHANGED validating
     ELSE IF f.slow
       THEN /\ validating' = validating \cup {[seq |-> nFrames + 1, frame |-> f]}
            /\ UNCHANGED <<streams, written>>
       ELSE /\ Write(Message("data", f, nFrames + 1,
                             IF f.ok THEN Validated(f.data) ELSE f.data, 0))
            /\ UNCHANGED validating

\* #handleDataMessage(msg) that delivers the frames of unknown topics unvalidated
HandleDataMessageAnyTopic(f) ==
  /\ UNCHANGED <<subs, chunkStreams, sockets>>
  /\ IF f.topic \notin Topics \/ ~HasSchema(f.topic)
       THEN /\ Write(Message("data", f, nFrames + 1, f.data, 0))
            /\ UNCHANGED validating
     ELSE IF f.slow
       THEN /\ validating' = validating \cup {[seq |-> nFrames + 1, frame |-> f]}
            /\ UNCHANGED <<streams, written>>
     ELSE IF ~f.ok
       THEN UNCHANGED <<streams, written, validating>>
       ELSE /\ Write(Message("data", f, nFrames + 1, Validated(f.data), 0))
            /\ UNCHANGED validating

\* #handleDataMessage(msg)
HandleDataMessage(f) ==
  /\ UNCHANGED <<subs, chunkStreams, sockets>>
  /\ IF f.topic \notin Topics
       THEN UNCHANGED <<streams, written, validating>>
     ELSE IF ~HasSchema(f.topic)
       THEN /\ Write(Message("data", f, nFrames + 1, f.data, 0))
            /\ UNCHANGED validating
     ELSE IF f.slow
       THEN /\ validating' = validating \cup {[seq |-> nFrames + 1, frame |-> f]}
            /\ UNCHANGED <<streams, written>>
     ELSE IF ~f.ok
       THEN UNCHANGED <<streams, written, validating>>
       ELSE /\ Write(Message("data", f, nFrames + 1, Validated(f.data), 0))
            /\ UNCHANGED validating

\* #handleDataMessage(msg) resumes after "await schema.validate(msg.data)"
ValidateDone(v) ==
  /\ TaskCanStart
  /\ v \in validating
  /\ validating' = validating \ {v}
  /\ IF v.frame.ok
       THEN Write(Message("data", v.frame, v.seq, Validated(v.frame.data), 0))
       ELSE UNCHANGED <<streams, written>>
  /\ lastOp' = "other"
  /\ UNCHANGED auxVars
  /\ UNCHANGED <<sessionVars, configVars, attempts, sockets, timers, calls, subs,
                 nFrames, lastFrame, userOps, closed, lastDerive, abnormalRun>>

\* #handleDataStreamStart(msg) without the test of the table: a start for an id
\* that is open registers a new sub-stream in place of the old one
HandleDataStreamStartReplaces(f) ==
  /\ UNCHANGED <<validating, sockets>>
  /\ LET s == nSubs + 1 IN
     /\ subs' = [subs EXCEPT ![s] = [id |-> f.id, state |-> "open", queue |-> <<>>]]
     /\ chunkStreams' = [chunkStreams EXCEPT ![f.id] = s]
     /\ Write(Message("datastream-start", f, nFrames + 1, f.id, s))

\* #handleDataStreamStart(msg)
HandleDataStreamStart(f) ==
  /\ UNCHANGED <<validating, sockets>>
  /\ IF chunkStreams[f.id] # 0
       THEN UNCHANGED <<subs, chunkStreams, streams, written>>
       ELSE LET s == nSubs + 1 IN
            /\ subs' = [subs EXCEPT ![s] = [id |-> f.id, state |-> "open", queue |-> <<>>]]
            /\ chunkStreams' = [chunkStreams EXCEPT ![f.id] = s]
            /\ Write(Message("datastream-start", f, nFrames + 1, f.id, s))

\* #handleDataStreamEnd(msg) that leaves the entry of the id in the table
HandleDataStreamEndKeepsEntry(f) ==
  /\ UNCHANGED <<validating, sockets>>
  /\ IF chunkStreams[f.id] = 0
       THEN UNCHANGED <<subs, chunkStreams, streams, written>>
       ELSE LET s == chunkStreams[f.id] IN
            /\ subs' = [subs EXCEPT ![s].state = IF @ = "open" THEN "closed" ELSE @]
            /\ chunkStreams' = chunkStreams
            /\ Write(Message("datastream-end", f, nFrames + 1, f.id, s))

\* #handleDataStreamEnd(msg)
HandleDataStreamEnd(f) ==
  /\ UNCHANGED <<validating, sockets>>
  /\ IF chunkStreams[f.id] = 0
       THEN UNCHANGED <<subs, chunkStreams, streams, written>>
       ELSE LET s == chunkStreams[f.id] IN
            /\ subs' = [subs EXCEPT ![s].state = IF @ = "open" THEN "closed" ELSE @]
            /\ chunkStreams' = [chunkStreams EXCEPT ![f.id] = 0]
            /\ Write(Message("datastream-end", f, nFrames + 1, f.id, s))

\* #handleChunk(msg) that puts the newest chunk first
HandleChunkPrepends(f) ==
  /\ UNCHANGED <<validating, sockets, chunkStreams>>
  /\ IF chunkStreams[f.id] = 0
       THEN UNCHANGED <<subs, streams, written>>
       ELSE LET s == chunkStreams[f.id] IN
            /\ subs' = [subs EXCEPT ![s].queue =
                          IF subs[s].state = "open" THEN <<f.data>> \o @ ELSE @]
            /\ Write(Message("chunk", f, nFrames + 1, f.data, s))

\* #handleChunk(msg) without the test of the table: the chunk of an unknown id
\* is passed on
HandleChunkUnknownWrites(f) ==
  /\ UNCHANGED <<validating, sockets, chunkStreams>>
  /\ LET s == chunkStreams[f.id] IN
     /\ subs' = IF s = 0 THEN subs
                ELSE [subs EXCEPT ![s].queue =
                        IF subs[s].state = "open" THEN Append(@, f.data) ELSE @]
     /\ Write(Message("chunk", f, nFrames + 1, f.data, s))

\* #handleChunk(msg): controller.enqueue throws on a stream that is not open, and
\* the throw is caught
HandleChunk(f) ==
  /\ UNCHANGED <<validating, sockets, chunkStreams>>
  /\ IF chunkStreams[f.id] = 0
       THEN UNCHANGED <<subs, streams, written>>
       ELSE LET s == chunkStreams[f.id] IN
            /\ subs' = [subs EXCEPT ![s].queue =
                          IF subs[s].state = "open" THEN Append(@, f.data) ELSE @]
            /\ Write(Message("chunk", f, nFrames + 1, f.data, s))

\* case "ping" without an answer
HandlePingSilent == UNCHANGED <<validating, subs, chunkStreams, streams, written, sockets>>

\* case "ping": a pong on this.#ws when it is OPEN
HandlePing ==
  /\ UNCHANGED <<validating, subs, chunkStreams, streams, written>>
  /\ IF ws # 0 /\ sockets[ws].readyState = "OPEN"
       THEN sockets' = [sockets EXCEPT ![ws].pongs = @ + 1]
       ELSE UNCHANGED sockets

\* a pong for a frame that failed the envelope validation
HandleInvalidPongs == HandlePing

\* the envelope error of the frame is raised on the consumer streams
HandleInvalidErrorsStreams ==
  /\ UNCHANGED <<subs, chunkStreams, written, validating, sockets>>
  /\ streams' = FanoutCloseErrors(streams, fanout)

\* "if (!parseRes.success) return": the frame is logged and ignored
HandleInvalid == UNCHANGED <<subs, chunkStreams, streams, written, validating, sockets>>

\* onmessage: #handleMessage(event); the envelope parse is ready at once, so the
\* dispatch runs in the task of the frame
HandleFrame(s, f, limit) ==
  /\ TaskCanStart
  /\ nFrames < limit
  /\ sockets[s].readyState = "OPEN"
  /\ sockets[s].attached
  /\ nFrames' = nFrames + 1
  /\ lastFrame' = f
  /\ IF f.kind = "malformed" THEN HandleInvalid
     ELSE IF ~running
       THEN UNCHANGED <<subs, chunkStreams, streams, written, validating, sockets>>
     ELSE IF f.kind = "data" THEN HandleDataMessage(f)
     ELSE IF f.kind = "datastream-start" THEN HandleDataStreamStart(f)
     ELSE IF f.kind = "datastream-end" THEN HandleDataStreamEnd(f)
     ELSE IF f.kind = "chunk" THEN HandleChunk(f)
     ELSE HandlePing
  /\ lastOp' = "other"
  /\ UNCHANGED auxVars
  /\ UNCHANGED <<running, ws, reconnectAttempts, connectionPromise, fanout, configVars,
                 attempts, timers, calls,
                 userOps, closed, lastDerive, abnormalRun>>

HandleMessage(s, kind, id) == HandleFrame(s, Frame(kind, "U", id, 0, TRUE, FALSE), MaxFrames)

\* ---- the session and its environment ------------------------------------------
Next ==
  \/ Connect
  \/ Close
  \/ GetJsonStream
  \/ \E i \in ConsumerIds : CancelStream(i)
  \/ \E s \in SubIds : CancelSub(s)
  \/ \E a \in AttemptIds : CreateTransport(a)
  \/ \E a \in AttemptIds : ConnectFinally(a)
  \/ \E a \in AttemptIds, res \in {"key", "nokey", "fail"} : DeriveDone(a, res)
  \/ \E s \in AttemptIds : SockOpen(s)
  \/ \E s \in AttemptIds : SockError(s)
  \/ \E s \in AttemptIds, code \in CloseCodes : SockClose(s, code)
  \/ \E k \in 1..maxReconnectAttempts : TimerFire(k)
  \/ \E s \in AttemptIds, kind \in FrameKinds : HandleMessage(s, kind, "A")

Spec == Init /\ [][Next]_vars

\* The reconnect scenario: a session with a key on a working platform, one
\* consumer, and transports that open, fail and close; enough transports for a
\* run of closures that uses up the reconnect budget.
InitReconnect == Init /\ tokenKey /\ platform = "ok"

NextReconnect ==
  \/ ConnectUpTo(ReconnectRun)
  \/ GetJsonStream
  \/ \E a \in AttemptIds : CreateTransport(a)
  \/ \E s \in AttemptIds : SockOpen(s)
  \/ \E s \in AttemptIds : SockError(s)
  \/ \E s \in AttemptIds, code \in CloseCodes : SockClose(s, code)
  \/ \E k \in 1..maxReconnectAttempts : TimerFireUpTo(k, ReconnectRun)

SpecReconnect == InitReconnect /\ [][NextReconnect]_vars

\* The frame-dispatch scenario: one connection of a session with a key, its
\* consumers, and data, ping and malformed frames; the connection can close and
\* the user can close the session while frames are handled.
AllFrames == DataFrames \cup StartEndFrames \cup ChunkFrames \cup ControlFrames

NextFrames ==
  \/ ConnectUpTo(1)
  \/ Close
  \/ GetJsonStream
  \/ \E a \in AttemptIds : CreateTransport(a)
  \/ \E s \in AttemptIds : SockOpen(s)
  \/ \E s \in AttemptIds, code \in CloseCodes : SockClose(s, code)
  \/ \E s \in AttemptIds, f \in DataFrames \cup ControlFrames : HandleFrame(s, f, MaxFrameRun)
  \/ \E seq \in 1..MaxFrameRun, f \in DataFrames : ValidateDone([seq |-> seq, frame |-> f])

SpecFrames == InitReconnect /\ [][NextFrames]_vars

\* The keep-alive scenario: pings on the connections of a session that
\* connects, reconnects and closes.
PingFrame == Frame("ping", "-", "-", 0, TRUE, FALSE)

NextPing ==
  \/ Connect
  \/ Close
  \/ \E a \in AttemptIds : CreateTransport(a)
  \/ \E s \in AttemptIds : SockOpen(s)
  \/ \E s \in AttemptIds, code \in CloseCodes : SockClose(s, code)
  \/ \E k \in 1..maxReconnectAttempts : TimerFire(k)
  \/ \E s \in AttemptIds : HandleFrame(s, PingFrame, MaxFrameRun)

SpecPing == InitReconnect /\ [][NextPing]_vars

\* The chunk-reassembly scenario: one connection and the frames of the chunk
\* protocol, with consumers that may cancel a sub-stream.
NextChunks ==
  \/ ConnectUpTo(1)
  \/ GetJsonStream
  \/ \E s \in SubIds : CancelSub(s)
  \/ \E a \in AttemptIds : CreateTransport(a)
  \/ \E s \in AttemptIds : SockOpen(s)
  \/ \E s \in AttemptIds, f \in StartEndFrames \cup ChunkFrames : HandleFrame(s, f, MaxChunkRun)

SpecChunks == InitReconnect /\ [][NextChunks]_vars

\* ---- useCallback() ----------------------------------------------------------------
\* useCallback(callback, stream) up to its first await: stream is a new
\* getJsonStream() (i is the next stream) or a stream obtained before; the
\* reader locks it and, when the session is not running, the loop is left at
\* once and the lock released.
UseCallback(i) ==
  /\ UserCanRun
  /\ userOps < MaxUserOps
  /\ userOps' = userOps + 1
  /\ loops[i].pc = "none"
  /\ IF streams[i].status = "none"
       THEN /\ i = nStreams + 1
            /\ streams' = FanoutCreateStream(streams, i, "none")
            /\ fanout' = fanout \cup {i}
       ELSE /\ streams[i].status = "open"
            /\ UNCHANGED <<streams, fanout>>
  /\ loops' = [loops EXCEPT ![i] =
                 IF running THEN [pc |-> "reading", locked |-> TRUE, calls |-> <<>>]
                 ELSE [pc |-> "done", locked |-> FALSE, calls |-> <<>>]]
  /\ lastOp' = "other"
  /\ UNCHANGED <<running, ws, reconnectAttempts, connectionPromise, chunkStreams,
                 configVars, attempts, sockets, timers, calls, subs, frameVars,
                 nFrames, closed, lastDerive, abnormalRun, readers, acq>>

\* the loop leaves: finally { reader.releaseLock() }
LoopExit(i) == [loops EXCEPT ![i].pc = "done", ![i].locked = FALSE]

\* the loop without the try/catch around callback(value)
LoopNextUncaught(i, throws) ==
  IF readers[i].nread < Len(streams[i].queue)
    THEN /\ readers' = [readers EXCEPT ![i].nread = @ + 1]
         /\ IF ~running
              THEN loops' = LoopExit(i)
              ELSE loops' =
                     [(IF throws THEN LoopExit(i) ELSE loops) EXCEPT ![i].calls =
                        Append(@, [seq |-> streams[i].queue[readers[i].nread + 1].seq,
                                   threw |-> throws])]
    ELSE /\ readers' = [readers EXCEPT ![i].end = "done"]
         /\ loops' = LoopExit(i)

\* the loop resumes after "await reader.read()": done or a stopped session end
\* it, otherwise callback(value) runs, its error is caught, and with the
\* session running the next read is started
LoopNext(i, throws) ==
  IF readers[i].nread < Len(streams[i].queue)
    THEN /\ readers' = [readers EXCEPT ![i].nread = @ + 1]
         /\ IF ~running
              THEN loops' = LoopExit(i)
              ELSE loops' =
                     [loops EXCEPT ![i].calls =
                        Append(@, [seq |-> streams[i].queue[readers[i].nread + 1].seq,
                                   threw |-> throws])]
    ELSE /\ readers' = [readers EXCEPT ![i].end = "done"]
         /\ loops' = LoopExit(i)

LoopStep(i, throws) ==
  /\ LoopReady(i)
  /\ LoopNext(i, throws)
  /\ lastOp' = "other"
  /\ UNCHANGED <<sessionVars, configVars, envVars, frameVars,
                 nFrames, userOps, closed, lastDerive, abnormalRun, acq>>

\* The callback scenario: a session that connects, reconnects and closes, data
\* frames of a topic without schema, and useCallback() loops whose callback may
\* throw.
CallbackFrame == Frame("data", "U", "-", 1, TRUE, FALSE)

NextCallback ==
  \/ Connect
  \/ Close
  \/ \E i \in ConsumerIds : UseCallback(i)
  \/ GetJsonStream
  \/ \E a \in AttemptIds : CreateTransport(a)
  \/ \E s \in AttemptIds : SockOpen(s)
  \/ \E s \in AttemptIds, code \in CloseCodes : SockClose(s, code)
  \/ \E k \in 1..maxReconnectAttempts : TimerFire(k)
  \/ \E s \in AttemptIds : HandleFrame(s, CallbackFrame, MaxFrameRun)
  \/ \E i \in ConsumerIds, throws \in BOOLEAN : LoopStep(i, throws)

SpecCallback == InitReconnect /\ [][NextCallback]_vars

\* The same with the scheduling the platform guarantees: a read that can return
\* does return, a timer fires, and a suspended #connect() resumes.
SpecCallbackFair ==
  /\ SpecCallback
  /\ WF_vars(\E i \in ConsumerIds, throws \in BOOLEAN : LoopStep(i, throws))
  /\ WF_vars(\E k \in 1..maxReconnectAttempts : TimerFire(k))
  /\ WF_vars(\E a \in AttemptIds : CreateTransport(a))

\* ---- the fanout driven by its own callers ---------------------------------------
\* The values written in the fanout scenario.
FanoutValues == {1, 2}

FanoutStreamIds == 1..MaxFanoutStreams

\* what the fanout scenario leaves alone: the session
FanoutFrame(op) ==
  /\ userOps' = userOps + 1
  /\ lastOp' = op
  /\ UNCHANGED <<running, ws, reconnectAttempts, connectionPromise, chunkStreams,
                 configVars, attempts, sockets, timers, calls, subs,
                 validating, lastFrame, nFrames, closed, lastDerive, abnormalRun,
                 loops, acq>>

\* createStream(transform) that does not register the stream
CreateStreamUnregistered(transform) ==
  /\ userOps < MaxFanoutOps
  /\ nStreams < MaxFanoutStreams
  /\ streams' = FanoutCreateStream(streams, nStreams + 1, transform)
  /\ fanout' = fanout
  /\ readers' = [readers EXCEPT ![nStreams + 1] = [NoReader EXCEPT !.from = Len(written)]]
  /\ written' = written
  /\ FanoutFrame("other")

\* fanout.createStream(transform)
CreateStream(transform) ==
  /\ userOps < MaxFanoutOps
  /\ nStreams < MaxFanoutStreams
  /\ streams' = FanoutCreateStream(streams, nStreams + 1, transform)
  /\ fanout' = fanout \cup {nStreams + 1}
  /\ readers' = [readers EXCEPT ![nStreams + 1] = [NoReader EXCEPT !.from = Len(written)]]
  /\ written' = written
  /\ FanoutFrame("other")

\* fanout.write(v)
FanoutWriteValue(v) ==
  /\ userOps < MaxFanoutOps
  /\ streams' = FanoutWrite(streams, fanout, v)
  /\ fanout' = FanoutLiveAfterWrite(streams, fanout)
  /\ written' = Append(written, v)
  /\ readers' = readers
  /\ FanoutFrame(IF \E i \in fanout : streams[i].status = "cancelled"
                   THEN "enqueueFailed" ELSE "other")

\* fanout.close()
FanoutCloseAll ==
  /\ userOps < MaxFanoutOps
  /\ streams' = FanoutClose(streams, fanout)
  /\ fanout' = {}
  /\ UNCHANGED <<written, readers>>
  /\ FanoutFrame("fanoutClose")

\* reader.cancel() by the consumer of stream i: the values not yet read are
\* discarded; the fanout has not noticed yet
ReaderCancel(i) ==
  /\ userOps < MaxFanoutOps
  /\ streams[i].status = "open"
  /\ streams' = [streams EXCEPT ![i].status = "cancelled",
                                 ![i].queue = SubSeq(@, 1, readers[i].nread)]
  /\ readers' = [readers EXCEPT ![i].left = Len(written)]
  /\ UNCHANGED <<fanout, written>>
  /\ FanoutFrame("other")

\* the caller's code has returned: the fanout's reaction to the cancellations
\* runs and removes the cancelled streams from the live set
FanoutNoticesCancel ==
  /\ \E i \in fanout : streams[i].status = "cancelled"
  /\ fanout' = {i \in fanout : streams[i].status # "cancelled"}
  /\ lastOp' = "other"
  /\ UNCHANGED <<running, ws, reconnectAttempts, connectionPromise, chunkStreams,
                 configVars, envVars, frameVars, nFrames, userOps, closed, lastDerive,
                 abnormalRun, auxVars>>

\* reader.read() by the consumer of stream i: the next value, or the end
ReaderRead(i) ==
  /\ streams[i].status # "none"
  /\ readers[i].end = "no"
  /\ IF streams[i].status = "cancelled"
       THEN readers' = [readers EXCEPT ![i].end = "done"]
     ELSE IF readers[i].nread < Len(streams[i].queue)
       THEN readers' = [readers EXCEPT ![i].nread = @ + 1]
     ELSE /\ streams[i].status \in {"closed", "errored"}
          /\ readers' = [readers EXCEPT ![i].end =
                             IF streams[i].status = "closed" THEN "done" ELSE "error"]
  /\ lastOp' = "other"
  /\ UNCHANGED <<running, ws, reconnectAttempts, connectionPromise, chunkStreams, fanout,
                 configVars, envVars, frameVars, nFrames, userOps, closed, lastDerive,
                 abnormalRun, loops, acq>>

NextFanout ==
  \/ \E transform \in Transforms : CreateStream(transform)
  \/ \E v \in FanoutValues : FanoutWriteValue(v)
  \/ FanoutCloseAll
  \/ \E i \in FanoutStreamIds : ReaderCancel(i)
  \/ FanoutNoticesCancel
  \/ \E i \in FanoutStreamIds : ReaderRead(i)

SpecFanout == InitReconnect /\ [][NextFanout]_vars

\* ---- token acquisition ----------------------------------------------------------
\* Error messages, as sequences of words (a test matches a message by a phrase
\* it contains).
FailedToGetToken == <<"Failed", "to", "get", "subscription", "token">>
ChannelIdRequired == <<"Channel", "ID", "is", "required">>

\* the messages of getSubscriptionToken() in subscribe/helpers.ts, which are in
\* Russian in the source (transliterated here)
HelperNoChannelMessage ==
  <<"Trebuetsya", "ID", "kanala", "dlya", "sozdaniya", "tokena", "podpiski">>
HelperNoTokenMessage == <<"Ne", "udalos", "poluchit", "token", "podpiski">>

\* toThrow(phrase): the message contains the phrase
Has(message, phrase) ==
  \E k \in 0..(Len(message) - Len(phrase)) :
    SubSeq(message, k + 1, k + Len(phrase)) = phrase

Statuses == {200, 401, 403, 500}
Jwts == {"", "jwtA", "jwtB"}

\* the credential was rejected and a fallback credential was supplied
RetryOnAnyFailure(status, hasFallback) == status # 200 /\ hasFallback

ShouldFallback(status, hasFallback) == status \in {401, 403} /\ hasFallback

\* the credential of the second request
RetryWithPrimary == "primary"

FallbackCredential == "fallback"

TokenFrame ==
  UNCHANGED <<sessionVars, configVars, envVars, histVars, frameVars, readers, loops>>

\* api.getSubscriptionToken({channel, topics, signingKey, signingKeyFallback}):
\* the request with the primary credential is sent
ApiGetSubscriptionToken(hasFallback) ==
  /\ acq.pc \in {"idle", "done"}
  /\ acq.n < MaxTokenCalls
  /\ acq' = [NoRequest EXCEPT !.n = acq.n + 1, !.pc = "primary", !.fallback = hasFallback,
                               !.sent = <<"primary">>, !.helper = acq.helper]
  /\ TokenFrame

\* the response to the request in flight arrives
HttpResponse(status, jwt) ==
  /\ acq.pc \in {"primary", "fallback"}
  /\ LET responses == Append(acq.responses, [status |-> status, jwt |-> jwt]) IN
     IF acq.pc = "primary" /\ ShouldFallback(status, acq.fallback)
       THEN acq' = [acq EXCEPT !.pc = "fallback", !.responses = responses,
                               !.sent = Append(@, FallbackCredential)]
     ELSE IF status = 200 /\ jwt # ""
       THEN acq' = [acq EXCEPT !.pc = "done", !.responses = responses,
                               !.result = "token", !.token = jwt]
     ELSE acq' = [acq EXCEPT !.pc = "done", !.responses = responses,
                             !.result = "error", !.error = FailedToGetToken]
  /\ TokenFrame

\* what the token provider of the application gives: no provider at all, a
\* promise of undefined, of the empty string, or of a token
Provided == {"absent", "undefined", "", "jwtA"}

ChannelIds == {"", "test-channel"}

\* getSubscriptionToken(app, {channel, topics}) of subscribe/helpers.ts
GetSubscriptionTokenResult(channelId, provided) ==
  IF channelId = ""
    THEN [channel |-> channelId, provided |-> provided, ok |-> FALSE,
          error |-> HelperNoChannelMessage, key |-> ""]
  ELSE IF provided \in {"absent", "undefined", ""}
    THEN [channel |-> channelId, provided |-> provided, ok |-> FALSE,
          error |-> HelperNoTokenMessage, key |-> ""]
  ELSE [channel |-> channelId, provided |-> provided, ok |-> TRUE,
        error |-> <<>>, key |-> provided]

GetSubscriptionToken(channelId, provided) ==
  /\ acq' = [acq EXCEPT !.helper = GetSubscriptionTokenResult(channelId, provided)]
  /\ TokenFrame

NextToken ==
  \/ \E channelId \in ChannelIds, provided \in Provided :
       GetSubscriptionToken(channelId, provided)
  \/ \E hasFallback \in BOOLEAN : ApiGetSubscriptionToken(hasFallback)
  \/ \E status \in Statuses, jwt \in Jwts : HttpResponse(status, jwt)

SpecToken == InitReconnect /\ [][NextToken]_vars

\* The backoff scenario: a session that connects, closes and reconnects, with
\* transports that open, fail and close.
NextBackoff ==
  \/ Connect
  \/ Close
  \/ \E a \in AttemptIds : CreateTransport(a)
  \/ \E s \in AttemptIds : SockOpen(s)
  \/ \E s \in AttemptIds : SockError(s)
  \/ \E s \in AttemptIds, code \in CloseCodes : SockClose(s, code)
  \/ \E k \in 1..maxReconnectAttempts : TimerFire(k)

SpecBackoff == InitReconnect /\ [][NextBackoff]_vars

\* The reconnect scenario with consumers and messages: the backoff scenario, and
\* streams obtained at any time and data frames of the topic without schema.
NextSurvive ==
  \/ NextBackoff
  \/ GetJsonStream
  \/ \E s \in AttemptIds : HandleFrame(s, CallbackFrame, MaxFrameRun)

SpecSurvive == InitReconnect /\ [][NextSurvive]_vars

\* ---- the session under protocol-level issues ---------------------------------------
\* One connection of a session with consumers that read; the frames are a
\* message that is delivered and the frames that are not: malformed, unknown
\* topic, failed validation (at once or later), a chunk and an end for an id
\* that may be unknown, a start that may be a duplicate.
ProtocolFrames ==
  {Frame("malformed", "-", "-", 0, TRUE, FALSE),
   Frame("data", "U", "-", 1, TRUE, FALSE),
   Frame("data", "X", "-", 1, TRUE, FALSE),
   Frame("data", "T", "-", 1, FALSE, FALSE),
   Frame("data", "T", "-", 1, FALSE, TRUE),
   Frame("datastream-start", "U", "A", 0, TRUE, FALSE),
   Frame("chunk", "U", "A", 1, TRUE, FALSE),
   Frame("datastream-end", "U", "A", 0, TRUE, FALSE)}

NextProtocol ==
  \/ ConnectUpTo(1)
  \/ Close
  \/ GetJsonStream
  \/ \E a \in AttemptIds : CreateTransport(a)
  \/ \E s \in AttemptIds : SockOpen(s)
  \/ \E s \in AttemptIds, code \in CloseCodes : SockClose(s, code)
  \/ \E s \in AttemptIds, f \in ProtocolFrames : HandleFrame(s, f, MaxFrameRun)
  \/ \E seq \in 1..MaxFrameRun, f \in ProtocolFrames : ValidateDone([seq |-> seq, frame |-> f])
  \/ \E i \in ConsumerIds : ReaderRead(i)

SpecProtocol == InitReconnect /\ [][NextProtocol]_vars

\* ---- properties ---------------------------------------------------------------
\* the #connect() invocations that have not settled
InFlight == {a \in AttemptIds : attempts[a].pc \in {"derive", "wsurl", "waiting", "rejected"}}

\* the transports that are connecting or open with their callbacks attached
LiveTransports ==
  {s \in AttemptIds : sockets[s].attached /\ sockets[s].readyState \in {"CONNECTING", "OPEN"}}

\* C1: at most one connection attempt is in flight at any time; a connect()
\* called while an attempt is in flight starts no attempt (no token derivation,
\* no transport) and awaits that attempt; the calls awaiting one attempt settle
\* together with the same outcome.
C1_ConnectCoalesces ==
  /\ [](Cardinality(InFlight) <= 1)
  /\ [][(nCalls' = nCalls + 1 /\ InFlight # {}) =>
          /\ InFlight' = InFlight
          /\ \A a \in AttemptIds : attempts'[a].pc = attempts[a].pc
          /\ sockets' = sockets
          /\ calls'[nCalls'].status = "pending"
          /\ calls'[nCalls'].att \in InFlight]_vars
  /\ [][\A c, d \in CallIds :
          (/\ calls[c].status = "pending"
           /\ calls[d].status = "pending"
           /\ calls[c].att = calls[d].att) => calls'[c].status = calls'[d].status]_vars

\* a call that joined an attempt in flight has settled as the call that started it
C1_JoinedCallSettled ==
  \E c, d \in CallIds :
    /\ ~calls[c].joined /\ calls[d].joined
    /\ calls[c].status = "resolved" /\ calls[d].status = "resolved"

\* C2: a connect() called by the user while the session is open creates no
\* transport.
C2_ConnectWhileOpenCreatesNoTransport ==
  \A a \in AttemptIds :
    (attempts[a].origin = "user" /\ attempts[a].whileOpen) => sockets[a].readyState = "none"

\* C3: at most one transport is connecting or open with its callbacks attached.
C3_OneLiveTransport == Cardinality(LiveTransports) <= 1

\* a second transport is live after the session closed the one before it
C3_SecondTransportLive ==
  \E s, r \in AttemptIds :
    /\ s # r
    /\ sockets[s].closes = 1 /\ ~sockets[s].attached
    /\ r \in LiveTransports /\ ws = r

\* C4: a reconnect timer that was pending when close() was called creates no
\* transport when it fires.
C4_NoTransportAfterClose ==
  \A a \in AttemptIds : attempts[a].afterClose => sockets[a].readyState = "none"

\* C5: when close() has returned, the chunk table is empty, the fanout has size
\* 0 and no consumer stream is still open.
C5_CloseEndsEverything ==
  lastOp \in {"close", "close2"} =>
    /\ chunkStreams = EmptyTable
    /\ FanoutSize = 0
    /\ \A i \in ConsumerIds : streams[i].status # "open"

\* C6: a close() right after a close() changes nothing: no transport is closed,
\* fanout, consumer streams, chunk table and sub-streams, counters, timers and
\* pending connects stay as they are.
C6_CloseIdempotent ==
  [][lastOp' = "close2" =>
       UNCHANGED <<sessionVars, attempts, sockets, timers, calls, streams, subs>>]_vars

\* a second close() after a close() that tore down a transport
C6_ClosedTwice ==
  /\ lastOp = "close2"
  /\ reconnectAttempts = maxReconnectAttempts
  /\ \E s \in AttemptIds : sockets[s].closes = 1

\* C7: once maxReconnectAttempts + 1 abnormal closures were handled in a row,
\* the fanout is closed, no consumer stream is open and no reconnect is scheduled.
C7_ReconnectBound ==
  abnormalRun >= ReconnectRun =>
    /\ FanoutSize = 0
    /\ \A i \in ConsumerIds : streams[i].status # "open"
    /\ \A k \in 1..maxReconnectAttempts : timers[k] = 0

\* C8: handling a closure with code 1000 closes the fanout (every open consumer
\* stream ends), ends every open chunk sub-stream, empties the chunk table and
\* schedules no reconnect.
C8_NormalClosureTerminal ==
  [][lastOp' = "normalClosure" =>
       /\ ~running'
       /\ FanoutSize' = 0
       /\ \A i \in ConsumerIds : streams[i].status = "open" => streams'[i].status = "closed"
       /\ chunkStreams' = EmptyTable
       /\ \A s \in SubIds : subs[s].state = "open" => subs'[s].state = "closed"
       /\ timers' = timers
       /\ reconnectAttempts' = reconnectAttempts]_vars

\* a normal closure has ended a consumer stream and a chunk sub-stream
C8_NormalClosureHandled ==
  /\ lastOp = "normalClosure"
  /\ \E i \in ConsumerIds : streams[i].status = "closed" /\ Len(streams[i].queue) > 0
  /\ \E s \in SubIds : subs[s].state = "closed"

\* C9: once a transport has failed before opening (error, then close), the
\* session does not refer to it and its callbacks are detached.
C9_FailedTransportTornDown ==
  \A s \in AttemptIds :
    (sockets[s].errored /\ sockets[s].closeDue = "no") => (~sockets[s].attached /\ ws # s)

\* C10: on a token without a key every transport is created with a derived key;
\* a derivation that fails or gives no key creates no transport and rejects the
\* calls that await the attempt.
C10_KeyDerivedBeforeTransport ==
  /\ [](\A s \in AttemptIds :
          sockets[s].readyState # "none" =>
            sockets[s].token = IF tokenKey THEN "given" ELSE "derived")
  /\ [][\A a \in AttemptIds :
          (attempts[a].pc = "derive" /\ attempts'[a].pc # "derive" /\ lastDerive' # "key") =>
             /\ sockets' = sockets
             /\ ws' = ws
             /\ attempts'[a].pc = "done"
             /\ \A c \in CallIds :
                  (calls[c].att = a /\ calls[c].status = "pending") =>
                     calls'[c].status = "rejected"]_vars

\* a transport was created with a derived key, and a later derivation gave no
\* key and rejected the user's connect()
C10_DerivedThenNoKey ==
  /\ ~tokenKey
  /\ lastDerive = "nokey"
  /\ \E s \in AttemptIds : sockets[s].token = "derived"
  /\ \E c \in CallIds : calls[c].status = "rejected"

\* a step that handles an inbound frame: the frame is lastFrame'
FrameStep == nFrames' = nFrames + 1

\* a step that passes one message to the fanout: the message is in every live
\* consumer stream
WritesOne(data) ==
  /\ Len(written') = Len(written) + 1
  /\ SubSeq(written', 1, Len(written)) = written
  /\ written'[Len(written')].seq = nFrames'
  /\ written'[Len(written')].kind = "data"
  /\ written'[Len(written')].data = data
  /\ \A i \in fanout : streams'[i].queue = Append(streams[i].queue, written'[Len(written')])

\* a step that passes nothing to the fanout and leaves the consumer streams alone
WritesNothing == written' = written /\ streams' = streams

\* C11: the messages are written to the fanout in the order in which their
\* frames arrived.
C11_WritesInArrivalOrder ==
  \A j, k \in 1..Len(written) : j < k => written[j].seq < written[k].seq

\* C12: no consumer stream holds a message that was written while the session
\* was not running.
C12_WritesOnlyWhileRunning ==
  \A i \in ConsumerIds : \A k \in 1..Len(streams[i].queue) : streams[i].queue[k].running

\* C13: a data frame on the topic with a schema is dropped when its payload
\* fails the validation and delivered with the validated value when it passes,
\* at once or when the validation answers; a data frame on the topic without a
\* schema is delivered with its payload.
C13_SchemaGate ==
  /\ [][(FrameStep /\ running /\ lastFrame'.kind = "data") =>
          /\ (lastFrame'.topic = "U") => WritesOne(lastFrame'.data)
          /\ (lastFrame'.topic = "T" /\ lastFrame'.slow) => WritesNothing
          /\ (lastFrame'.topic = "T" /\ ~lastFrame'.slow /\ ~lastFrame'.ok) =>
               WritesNothing /\ validating' = validating
          /\ (lastFrame'.topic = "T" /\ ~lastFrame'.slow /\ lastFrame'.ok) =>
               written'[Len(written')].data = Validated(lastFrame'.data)
                 /\ Len(written') = Len(written) + 1]_vars
  /\ [][\A v \in validating \ validating' :
          IF v.frame.ok
            THEN /\ Len(written') = Len(written) + 1
                 /\ written'[Len(written')].data = Validated(v.frame.data)
                 /\ written'[Len(written')].seq = v.seq
            ELSE WritesNothing]_vars
  /\ [](\A k \in 1..Len(written) :
          written[k].kind = "data" =>
            written[k].data = IF HasSchema(written[k].topic) THEN Validated(1) ELSE 1)

\* a payload that failed the validation was dropped after a validated payload
\* reached a consumer
C13_ValidDeliveredInvalidDropped ==
  /\ lastFrame.kind = "data" /\ lastFrame.topic = "T" /\ ~lastFrame.ok
  /\ validating = {}
  /\ nFrames = 2
  /\ Len(written) = 1
  /\ \E i \in ConsumerIds :
       /\ Len(streams[i].queue) = 1
       /\ streams[i].queue[1].topic = "T"
       /\ streams[i].queue[1].data = Validated(1)

\* C14: a data frame on a topic that is not subscribed writes nothing to the
\* fanout, starts no validation and leaves the session running.
C14_UnknownTopicDropped ==
  /\ [][(FrameStep /\ lastFrame'.kind = "data" /\ lastFrame'.topic \notin Topics) =>
          /\ WritesNothing
          /\ validating' = validating
          /\ UNCHANGED <<running, ws, sockets, fanout>>]_vars
  /\ [](\A k \in 1..Len(written) : written[k].kind = "data" => written[k].topic \in Topics)

\* a frame of the unknown topic was dropped on a running session that has
\* delivered a message
C14_UnknownTopicSeen ==
  /\ lastFrame.kind = "data" /\ lastFrame.topic = "X"
  /\ SessionOpen
  /\ Len(written) = 1
  /\ nFrames = 2

\* C15: a frame that fails the envelope validation changes nothing: running,
\* transport, fanout and consumer streams, chunk table and sub-streams, and the
\* reconnect counter stay as they are.
C15_MalformedIgnored ==
  [][(FrameStep /\ lastFrame'.kind = "malformed") =>
       /\ WritesNothing
       /\ UNCHANGED <<sessionVars, sockets, subs, timers, validating>>]_vars

\* a malformed frame was handled on an open session with a consumer
C15_MalformedSeen ==
  /\ lastFrame.kind = "malformed"
  /\ SessionOpen
  /\ FanoutSize = 1

\* C16: a ping handled on an open session sends exactly one pong, on the
\* transport of the session, which is the only one with callbacks attached, and
\* writes nothing to the fanout; no other step sends a pong.
C16_PingPong ==
  /\ [][(FrameStep /\ lastFrame'.kind = "ping" /\ SessionOpen) =>
          /\ sockets' = [sockets EXCEPT ![ws].pongs = @ + 1]
          /\ WritesNothing
          /\ UNCHANGED <<sessionVars, subs, validating>>]_vars
  /\ [][(\E s \in AttemptIds : sockets'[s].pongs # sockets[s].pongs) =>
          (FrameStep /\ lastFrame'.kind = "ping")]_vars
  /\ [](\A s \in AttemptIds : sockets[s].attached => ws = s)

\* a ping was answered on each of two transports of the session
C16_PongsOnTwoTransports ==
  /\ SessionOpen
  /\ sockets[ws].pongs = 1
  /\ \E s \in AttemptIds : s # ws /\ sockets[s].pongs = 1
  /\ written = <<>>

\* C17: a datastream-start registers a new open sub-stream with nothing in it; a
\* chunk for a registered id is appended to the sub-stream of that id and to no
\* other; a datastream-end closes the sub-stream with its contents kept and
\* removes the entry; nothing else puts a value into a sub-stream.
C17_ChunkReassembly ==
  /\ [][(FrameStep /\ running /\ lastFrame'.kind = "datastream-start"
           /\ chunkStreams[lastFrame'.id] = 0) =>
          LET s == chunkStreams'[lastFrame'.id] IN
          /\ s # 0
          /\ subs[s].state = "none"
          /\ subs'[s] = [id |-> lastFrame'.id, state |-> "open", queue |-> <<>>]]_vars
  /\ [][(FrameStep /\ running /\ lastFrame'.kind = "chunk"
           /\ chunkStreams[lastFrame'.id] # 0) =>
          LET s == chunkStreams[lastFrame'.id] IN
          /\ subs[s].state = "open"
          /\ subs' = [subs EXCEPT ![s].queue = Append(@, lastFrame'.data)]
          /\ chunkStreams' = chunkStreams]_vars
  /\ [][(FrameStep /\ running /\ lastFrame'.kind = "datastream-end"
           /\ chunkStreams[lastFrame'.id] # 0) =>
          LET s == chunkStreams[lastFrame'.id] IN
          /\ subs[s].state = "open"
          /\ subs' = [subs EXCEPT ![s].state = "closed"]
          /\ chunkStreams' = [chunkStreams EXCEPT ![lastFrame'.id] = 0]]_vars
  /\ [][\A s \in SubIds :
          (subs[s].state # "none" /\ subs'[s].queue # subs[s].queue) =>
             (FrameStep /\ lastFrame'.kind = "chunk" /\ lastFrame'.id = subs[s].id)]_vars

\* start(A), chunk(A, 2), chunk(A, 1), end(A): the sub-stream of A has ended with
\* 2, 1 and the entry of A is gone
C17_Reassembled ==
  \E s \in SubIds :
    /\ subs[s].id = "A"
    /\ subs[s].state = "closed"
    /\ subs[s].queue = <<2, 1>>
    /\ chunkStreams["A"] = 0
    /\ lastFrame.kind = "datastream-end"
    /\ nFrames = 4

\* C18: a chunk or a datastream-end for an id without a table entry changes
\* neither the table nor any sub-stream, writes nothing to the fanout and leaves
\* the session running.
C18_UnknownIdNoOp ==
  [][(FrameStep /\ lastFrame'.kind \in {"chunk", "datastream-end"}
        /\ chunkStreams[lastFrame'.id] = 0) =>
       /\ WritesNothing
       /\ UNCHANGED <<sessionVars, subs, sockets>>]_vars

\* a chunk for A arrived while only B was registered, with a value in B's
\* sub-stream
C18_UnknownChunkSeen ==
  /\ lastFrame.kind = "chunk" /\ lastFrame.id = "A"
  /\ chunkStreams["A"] = 0
  /\ chunkStreams["B"] # 0
  /\ subs[chunkStreams["B"]].queue # <<>>
  /\ \A s \in SubIds : subs[s].state # "none" => subs[s].id = "B"
  /\ running

\* C19: every teardown (close(), a closure with code 1000, a closure with another
\* code) leaves the chunk table empty and no sub-stream open: the sub-streams
\* that were open are closed.
C19_TeardownEndsSubStreams ==
  [][lastOp' \in {"close", "close2", "normalClosure", "abnormalClosure"} =>
       /\ chunkStreams' = EmptyTable
       /\ \A s \in SubIds : subs'[s].state # "open"
       /\ \A s \in SubIds : subs[s].state = "open" => subs'[s].state = "closed"]_vars

\* an abnormal closure has closed the sub-stream that the only frame opened
C19_SubStreamClosedByTeardown ==
  /\ lastOp = "abnormalClosure"
  /\ nFrames = 1
  /\ lastFrame.kind = "datastream-start"
  /\ \E s \in SubIds : subs[s].state = "closed"

\* C20: cancelling a sub-stream removes the entry of its id and changes no other
\* entry and no other sub-stream; a cancelled sub-stream never changes again; a
\* chunk for an id without an entry is dropped.
C20_CancelDropsChunks ==
  /\ [][\A s \in SubIds :
          (subs[s].state = "open" /\ subs'[s].state = "cancelled") =>
             /\ chunkStreams' = [chunkStreams EXCEPT ![subs[s].id] = 0]
             /\ subs' = [subs EXCEPT ![s].state = "cancelled"]
             /\ WritesNothing]_vars
  /\ [][\A s \in SubIds : subs[s].state = "cancelled" => subs'[s] = subs[s]]_vars
  /\ [][(FrameStep /\ lastFrame'.kind = "chunk" /\ chunkStreams[lastFrame'.id] = 0) =>
          (WritesNothing /\ UNCHANGED <<subs, chunkStreams, running>>)]_vars

\* a chunk for A arrived after the consumer cancelled the sub-stream of A, while
\* the sub-stream of B is open
C20_ChunkAfterCancel ==
  /\ lastFrame.kind = "chunk" /\ lastFrame.id = "A"
  /\ chunkStreams["A"] = 0
  /\ \E s \in SubIds : subs[s].id = "A" /\ subs[s].state = "cancelled"
  /\ \E s \in SubIds : subs[s].id = "B" /\ subs[s].state = "open"
  /\ running

\* the values stream i has received are those written since its creation, each
\* once, in write order, mapped through the transform of the stream
ReceivedSinceCreation(i) ==
  /\ readers[i].from + Len(streams[i].queue) <= Len(written)
  /\ \A k \in 1..Len(streams[i].queue) :
       streams[i].queue[k] = Apply(streams[i].transform, written[readers[i].from + k])

\* the values the consumer of stream i has read so far
Observed(i) == SubSeq(streams[i].queue, 1, readers[i].nread)

\* C21: a stream that was created before a write(v) and is neither cancelled
\* nor ended receives v exactly once: an open stream holds exactly the values
\* written since its creation, in write order, and a stream ended by close()
\* those written between its creation and the close(); what a consumer has
\* read is a prefix of that, whatever happened to the other streams.
C21_FanoutIsolation ==
  \A i \in ConsumerIds :
    /\ streams[i].status \in {"open", "closed"} =>
         /\ ReceivedSinceCreation(i)
         /\ readers[i].nread <= Len(streams[i].queue)
    /\ streams[i].status = "open" =>
         readers[i].from + Len(streams[i].queue) = Len(written)

\* a consumer has read two different values in write order; the other stream
\* was cancelled before they were written
C21_ReadInOrderBesideCancelled ==
  \E i, j \in ConsumerIds :
    /\ streams[j].status = "cancelled" /\ readers[j].left = 0
    /\ streams[i].status = "open" /\ streams[i].transform = "none"
    /\ Len(written) = 2 /\ written[1] # written[2]
    /\ Observed(i) = written

\* a step of the fanout scenario that is a write(v)
WriteStep(v) == written' = Append(written, v)

\* C22: a write(v) completes whatever streams were cancelled: a stream of the
\* live set whose consumer cancelled it is removed from the live set and left
\* as it is, and every other stream of the live set stays in it and receives
\* v (through its transform).
C22_CancelledNeverDisturbs ==
  [][\A v \in FanoutValues : WriteStep(v) =>
       /\ \A i \in fanout :
            IF streams[i].status = "cancelled"
              THEN i \notin fanout' /\ streams'[i] = streams[i]
              ELSE /\ i \in fanout'
                   /\ streams'[i].status = "open"
                   /\ streams'[i].queue =
                        Append(streams[i].queue, Apply(streams[i].transform, v))
       /\ fanout' \subseteq fanout]_vars

\* the write met a stream cancelled just before: the stream has left the live
\* set, and the stream created after it has received and handed over the value
C22_WrittenPastCancelled ==
  \E i, j \in ConsumerIds :
    /\ j < i
    /\ lastOp = "enqueueFailed"
    /\ streams[j].status = "cancelled" /\ j \notin fanout
    /\ i \in fanout /\ Len(streams[i].queue) = 2
    /\ readers[i].nread = 1

\* C23: every write(v) hands each live stream v mapped through that stream's
\* own transform (v itself for a stream without transform), whatever the
\* transforms of the other streams are; and every value a consumer has read is
\* its own transform's image of the value written at that position.
C23_TransformIndependence ==
  /\ [][\A v \in FanoutValues : WriteStep(v) =>
          \A i, j \in fanout :
            (streams[i].status = "open" /\ streams[j].status = "open") =>
              /\ streams'[i].transform = streams[i].transform
              /\ streams'[j].transform = streams[j].transform
              /\ streams'[i].queue[Len(streams'[i].queue)] = Apply(streams[i].transform, v)
              /\ streams'[j].queue[Len(streams'[j].queue)] = Apply(streams[j].transform, v)]_vars
  /\ [](\A i \in ConsumerIds : \A k \in 1..Len(Observed(i)) :
          Observed(i)[k] = Apply(streams[i].transform, written[readers[i].from + k]))

\* two streams with different transforms have read their own images of the
\* same written values
C23_OwnImagesRead ==
  \E i, j \in ConsumerIds :
    /\ streams[i].transform = "double" /\ streams[j].transform = "plus10"
    /\ readers[i].from = readers[j].from
    /\ Len(written) = 2
    /\ Observed(i) = <<written[1] * 2, written[2] * 2>>
    /\ Observed(j) = <<written[1] + 10>>

\* C24: after close() of the fanout size() is 0, the streams that were live are
\* ended with the values written before the close() still to be read, and a
\* consumer who has read them gets done on the next read; no read ever ends in
\* an error.
C24_CloseSemantics ==
  /\ [][lastOp' = "fanoutClose" =>
          /\ FanoutSize' = 0
          /\ \A i \in ConsumerIds :
               /\ streams[i].status = "open" => streams'[i].status = "closed"
               /\ streams'[i].queue = streams[i].queue]_vars
  /\ [][\A i \in ConsumerIds :
          (/\ streams[i].status = "closed"
           /\ readers[i].end = "no"
           /\ readers'[i] # readers[i]) =>
             IF readers[i].nread < Len(streams[i].queue)
               THEN readers'[i].nread = readers[i].nread + 1 /\ readers'[i].end = "no"
               ELSE readers'[i].end = "done"]_vars
  /\ [](\A i \in ConsumerIds :
          /\ readers[i].end # "error"
          /\ (readers[i].end = "done" /\ streams[i].status = "closed") =>
               readers[i].nread = Len(streams[i].queue))

\* after close() two consumers have read what was written before it and then
\* got done
C24_DoneAfterValues ==
  /\ FanoutSize = 0
  /\ Len(written) = 1
  /\ \E i, j \in ConsumerIds :
       /\ i # j
       /\ streams[i].status = "closed" /\ streams[j].status = "closed"
       /\ Len(Observed(i)) = 1 /\ readers[i].end = "done"
       /\ Len(Observed(j)) = 1 /\ readers[j].end = "done"

\* the streams created and neither cancelled by their consumer nor closed
OpenStreams == {i \in ConsumerIds : streams[i].status = "open"}

\* the streams of the live set whose consumer has cancelled them
CancelledLive == {i \in fanout : streams[i].status = "cancelled"}

\* C25 as stated: size() always equals the number of streams created and
\* neither cancelled nor closed.
C25_SizeEqualsOpenStreams == FanoutSize = Cardinality(OpenStreams)

\* C25 as amended: size() counts the streams created and neither closed nor
\* removed after a cancellation; it grows by one per createStream(); a
\* cancelled stream leaves the count by a step of the fanout itself that is no
\* call of its user (or by the next write), and when no cancelled stream is
\* left in the live set size() is the number of streams neither cancelled nor
\* closed.
C25_SizeTracksLiveStreams ==
  /\ [](/\ OpenStreams \subseteq fanout
        /\ FanoutSize = Cardinality(OpenStreams) + Cardinality(CancelledLive)
        /\ (CancelledLive = {} => FanoutSize = Cardinality(OpenStreams)))
  /\ [][nStreams' = nStreams + 1 => FanoutSize' = FanoutSize + 1]_vars
  /\ [][(FanoutSize' < FanoutSize /\ userOps' = userOps) =>
          /\ CancelledLive # {}
          /\ fanout' = fanout \ CancelledLive
          /\ written' = written /\ streams' = streams]_vars
  /\ [][(FanoutSize' < FanoutSize /\ userOps' # userOps) =>
          \/ lastOp' = "fanoutClose"
          \/ Len(written') = Len(written) + 1 /\ fanout' = fanout \ CancelledLive]_vars

\* a cancelled stream has left the count without a write and without a further
\* call: two streams created, one cancelled, size() is 1
C25_CancelledLeftTheCount ==
  /\ userOps = 3 /\ written = <<>>
  /\ FanoutSize = 1
  /\ \E i, j \in ConsumerIds :
       /\ streams[i].status = "open" /\ i \in fanout
       /\ streams[j].status = "cancelled" /\ j \notin fanout

\* the first response of the token request rejected the credential
FirstRejected ==
  /\ Len(acq.responses) >= 1
  /\ acq.responses[1].status \in {401, 403}

\* C26: when the request with the primary credential is answered 401 or 403 and
\* a fallback credential was supplied, exactly one further request is made, with
\* the fallback credential, and the outcome is that of the fallback response
\* (its token when it is a 200 with a token); never more than two requests.
C26_TokenFallback ==
  /\ Len(acq.sent) <= 2
  /\ (FirstRejected /\ acq.fallback) =>
       /\ acq.sent = <<"primary", "fallback">>
       /\ acq.pc \in {"fallback", "done"}
       /\ acq.pc = "done" =>
            /\ Len(acq.responses) = 2
            /\ IF acq.responses[2].status = 200 /\ acq.responses[2].jwt # ""
                 THEN acq.result = "token" /\ acq.token = acq.responses[2].jwt
                 ELSE acq.result = "error"

\* a 401 on the primary credential, then a 200 on the fallback: the token is the
\* one of the second response
C26_FallbackTokenReturned ==
  /\ acq.pc = "done"
  /\ acq.sent = <<"primary", "fallback">>
  /\ acq.responses[1].status = 401 /\ acq.responses[1].jwt = "jwtA"
  /\ acq.responses[2].status = 200 /\ acq.responses[2].jwt = "jwtB"
  /\ acq.result = "token" /\ acq.token = "jwtB"

\* C27: when the first response is not a 401/403, or no fallback credential was
\* supplied, the request is the only one and its response settles the call: a
\* failure status (500, or a rejected credential without fallback) is an error.
C27_SingleAttempt ==
  (Len(acq.responses) >= 1 /\ (~FirstRejected \/ ~acq.fallback)) =>
    /\ acq.sent = <<"primary">>
    /\ Len(acq.responses) = 1
    /\ acq.pc = "done"
    /\ acq.responses[1].status # 200 =>
         acq.result = "error" /\ Has(acq.error, FailedToGetToken)
    /\ acq.result = "token" => acq.token = acq.responses[1].jwt /\ acq.token # ""

\* a 500 with a fallback credential at hand: one request, an error
C27_ServerErrorNotRetried ==
  /\ acq.pc = "done" /\ acq.fallback
  /\ acq.sent = <<"primary">>
  /\ acq.responses[1].status = 500
  /\ acq.result = "error"

\* C28: getSubscriptionToken fails with "Channel ID is required" for an empty
\* channel id and with "Failed to get subscription token" when the provider is
\* absent or gives no token; otherwise it returns the channel with a non-empty
\* key.
C28_HelperErrors ==
  acq.helper.channel # "-" =>
    IF acq.helper.channel = ""
      THEN ~acq.helper.ok /\ Has(acq.helper.error, ChannelIdRequired)
    ELSE IF acq.helper.provided \in {"absent", "undefined", ""}
      THEN ~acq.helper.ok /\ Has(acq.helper.error, FailedToGetToken)
    ELSE acq.helper.ok /\ acq.helper.key # ""

\* the arrival numbers of the values the callback of loop i was invoked with
Invoked(i) == [k \in 1..Len(loops[i].calls) |-> loops[i].calls[k].seq]

\* the arrival numbers of the values loop i has read
ReadByLoop(i) == [k \in 1..readers[i].nread |-> streams[i].queue[k].seq]

\* C29: a callback that throws does not end the read loop: the loop goes on to
\* its next read with the lock held; a loop that is reading has invoked the
\* callback with every value it has read, in order, whether or not earlier
\* invocations threw; a loop ends only on end-of-stream or with the session not
\* running.
C29_CallbackErrorKeepsLoop ==
  /\ [][\A i \in ConsumerIds :
          (/\ Len(loops'[i].calls) = Len(loops[i].calls) + 1
           /\ loops'[i].calls[Len(loops'[i].calls)].threw) =>
             loops'[i].pc = "reading" /\ loops'[i].locked]_vars
  /\ [](\A i \in ConsumerIds : loops[i].pc = "reading" => Invoked(i) = ReadByLoop(i))
  /\ [][\A i \in ConsumerIds :
          (loops[i].pc = "reading" /\ loops'[i].pc # "reading") =>
             /\ loops'[i].pc = "done"
             /\ ~running \/ readers'[i].end = "done"]_vars

\* the callback threw on the first value and was invoked with the second
C29_InvokedAfterThrow ==
  \E i \in ConsumerIds :
    /\ loops[i].pc = "reading"
    /\ Len(loops[i].calls) = 2
    /\ loops[i].calls[1].threw /\ ~loops[i].calls[2].threw
    /\ loops[i].calls[1].seq < loops[i].calls[2].seq

\* no reconnect timer is pending
NoTimerPending == \A k \in 1..maxReconnectAttempts : timers[k] = 0

\* C30: a read loop whose stream has ended, or whose session is not running,
\* eventually ends, and a loop that has ended holds no lock on its stream.  (A
\* session that waits for a reconnect timer is not counted as stopped, neither
\* when the loop is expected to end nor as an excuse for its not ending.)
C30_LoopsTerminate ==
  /\ \A i \in ConsumerIds :
       (/\ loops[i].pc = "reading"
        /\ streams[i].status # "open" \/ (~running /\ NoTimerPending))
         ~> (loops[i].pc = "done" \/ ~NoTimerPending)
  /\ [](\A i \in ConsumerIds : loops[i].pc = "done" => ~loops[i].locked)

\* C31: no consumer stream is ever in an error state and no read of a consumer
\* ends in an error; handling a frame, whatever it is, ends no consumer stream; a
\* consumer stream that stops being open has ended normally, in a step that
\* leaves the session not running.
C31_StreamsNeverError ==
  /\ [](\A i \in ConsumerIds : streams[i].status # "errored" /\ readers[i].end # "error")
  /\ [][FrameStep => \A i \in ConsumerIds : streams'[i].status = streams[i].status]_vars
  /\ [][\A i \in ConsumerIds :
          (streams[i].status = "open" /\ streams'[i].status # "open") =>
             streams'[i].status = "closed" /\ ~running']_vars

\* a consumer has read the one message delivered and then got done, after a
\* frame that failed the validation
C31_EndedNormallyAfterBadFrame ==
  \E i \in ConsumerIds :
    /\ streams[i].status = "closed"
    /\ readers[i].nread = 1 /\ readers[i].end = "done"
    /\ nFrames = 2
    /\ lastFrame.kind = "data" /\ lastFrame.topic = "T" /\ ~lastFrame.ok

\* C32: every chunk and every datastream-end message written to the fanout has
\* the stream id of a datastream-start message written before it, with no
\* datastream-end message of that id written in between.
C32_ChunksReferenceOpenStart ==
  \A k \in 1..Len(written) :
    written[k].kind \in {"chunk", "datastream-end"} =>
      \E j \in 1..(k - 1) :
        /\ written[j].kind = "datastream-start"
        /\ written[j].streamId = written[k].streamId
        /\ \A m \in (j + 1)..(k - 1) :
             ~(written[m].kind = "datastream-end"
                 /\ written[m].streamId = written[k].streamId)

\* start(A), chunk(A), end(A) were written, and the chunk of A that arrived after
\* them was not
C32_ChunkAfterEndNotWritten ==
  /\ Len(written) = 3
  /\ written[1].kind = "datastream-start" /\ written[1].streamId = "A"
  /\ written[2].kind = "chunk" /\ written[2].streamId = "A"
  /\ written[3].kind = "datastream-end" /\ written[3].streamId = "A"
  /\ nFrames = 4
  /\ lastFrame.kind = "chunk" /\ lastFrame.id = "A"

\* a step that schedules a reconnect timer of delay TimerDelays[k]
Schedules(k) == timers'[k] > timers[k]

\* C33: a reconnect is scheduled only by a step that increments the counter, to
\* a value k of 1..5, and its delay is 1000 * 2^(k - 1); no timer still pending
\* has a longer delay than the one scheduled; the delay does not decrease with
\* k; and no step taken with the counter at the maximum schedules a reconnect.
C33_BackoffDelays ==
  /\ [][\A k \in 1..maxReconnectAttempts : Schedules(k) =>
          /\ reconnectAttempts' = reconnectAttempts + 1
          /\ reconnectAttempts' \in 1..maxReconnectAttempts
          /\ TimerDelays[k] = 1000 * 2^(reconnectAttempts' - 1)
          /\ timers'[k] = timers[k] + 1
          /\ \A j \in 1..maxReconnectAttempts :
               timers[j] > 0 => TimerDelays[j] <= TimerDelays[k]]_vars
  /\ [](\A k \in 1..(maxReconnectAttempts - 1) :
          ReconnectDelayFor(k) <= ReconnectDelayFor(k + 1))
  /\ [][reconnectAttempts >= maxReconnectAttempts =>
          \A k \in 1..maxReconnectAttempts : ~Schedules(k)]_vars

\* the second abnormal closure in a row has scheduled its reconnect, with the
\* delay of 1000 ms
C33_SecondReconnectScheduled ==
  /\ lastOp = "abnormalClosure"
  /\ abnormalRun = 2
  /\ reconnectAttempts = 1
  /\ timers[TimerSlot(1000)] = 1

\* a step in which transport s becomes established
Opens(s) == sockets[s].readyState = "CONNECTING" /\ sockets'[s].readyState = "OPEN"

\* C34: a step in which a transport becomes established leaves the reconnect
\* counter at 0 and the session running; every other step that changes the
\* counter is the handling of an abnormal closure, which increments it, or a
\* close(), which sets it to the maximum.
C34_CounterResetOnOpen ==
  /\ [][\A s \in AttemptIds : Opens(s) => reconnectAttempts' = 0 /\ running']_vars
  /\ [][(reconnectAttempts' # reconnectAttempts /\ ~\E s \in AttemptIds : Opens(s)) =>
          \/ lastOp' = "abnormalClosure" /\ reconnectAttempts' = reconnectAttempts + 1
          \/ lastOp' \in {"close", "close2"}
                /\ reconnectAttempts' = maxReconnectAttempts]_vars

\* the transport of a reconnect has opened: the counter is back from 1 to 0 and
\* the session is running
C34_ResetAfterReconnect ==
  /\ SessionOpen
  /\ reconnectAttempts = 0
  /\ abnormalRun = 1
  /\ lastOp = "other"
  /\ NoTimerPending

\* C35: a datastream-start for an id that has a table entry changes neither the
\* table nor any sub-stream (the sub-stream of the id stays open with its
\* contents) and writes nothing to the fanout.
C35_DuplicateStartDropped ==
  [][(FrameStep /\ lastFrame'.kind = "datastream-start"
        /\ chunkStreams[lastFrame'.id] # 0) =>
       /\ WritesNothing
       /\ UNCHANGED <<chunkStreams, subs, running>>]_vars

\* a second start of A arrived after start(A) and chunk(A): the sub-stream of A
\* is the one registered first, open, with the chunk in it
C35_DuplicateStartSeen ==
  /\ nFrames = 3
  /\ lastFrame.kind = "datastream-start" /\ lastFrame.id = "A"
  /\ Len(written) = 2
  /\ chunkStreams["A"] = 1
  /\ subs[1].state = "open" /\ subs[1].queue = <<1>>
  /\ \A s \in SubIds : s # 1 => subs[s].state = "none"

\* C36: a new stream starts empty; a stream gets a value only in the step of a
\* write(v), namely v (through its transform) at its end, and otherwise its
\* contents only change by its consumer's cancel, which drops what was not
\* read; so a stream never holds more values than were written since its
\* creation.
C36_OnlyLaterValues ==
  /\ [][nStreams' = nStreams + 1 =>
          /\ streams'[nStreams'].queue = <<>>
          /\ written' = written]_vars
  /\ [][\A i \in ConsumerIds :
          (streams[i].status # "none" /\ streams'[i].queue # streams[i].queue) =>
             \/ \E v \in FanoutValues :
                  /\ WriteStep(v)
                  /\ streams'[i].queue = Append(streams[i].queue, Apply(streams[i].transform, v))
             \/ /\ streams'[i].status = "cancelled"
                /\ streams'[i].queue = SubSeq(streams[i].queue, 1, readers[i].nread)]_vars
  /\ [](\A i \in ConsumerIds :
          streams[i].status # "none" =>
            Len(streams[i].queue) <= Len(written) - readers[i].from)

\* 1 and 2 were written; the stream created between the two writes has handed
\* over 2 only, the stream created before them 1 and 2
C36_LateStreamSeesLaterValue ==
  \E i, j \in ConsumerIds :
    /\ written = <<1, 2>>
    /\ readers[j].from = 0 /\ readers[i].from = 1
    /\ streams[i].transform = "none" /\ streams[j].transform = "none"
    /\ Observed(j) = <<1, 2>>
    /\ Observed(i) = <<2>>
    /\ streams[i].status = "open"

\* something can still settle #connect() invocation a: it has not reached its
\* transport yet, or its transport is connecting with the callbacks attached
\* (onopen resolves, onerror rejects)
Settleable(a) ==
  \/ attempts[a].pc \in {"derive", "wsurl", "rejected"}
  \/ /\ attempts[a].pc = "waiting"
     /\ sockets[a].attached
     /\ sockets[a].readyState = "CONNECTING"

\* C37: every pending connect() call can still settle: the attempt it awaits
\* is never left with nothing that resolves or rejects it.
C37_ConnectSettles ==
  \A c \in CallIds : calls[c].status = "pending" => Settleable(calls[c].att)

\* the session has no connection, no reconnect scheduled, no connection
\* attempt in flight and no close event due
Stranded == ~running /\ NoTimerPending /\ InFlight = {} /\ ~CloseDue

\* C38: while the counter stands at the value an abnormal closure of the open
\* session gave it (no transport has opened and close() was not called since), a
\* step that leaves the session without connection, without scheduled reconnect
\* and without attempt in flight leaves the fanout closed.
C38_NoStrandedSession ==
  [][(/\ reconnectAttempts \in 1..(maxReconnectAttempts - 1)
      /\ reconnectAttempts' = reconnectAttempts
      /\ ~Stranded
      /\ Stranded') => FanoutSize' = 0]_vars

\* a reconnect is pending: its timer is scheduled, or the connection attempt the
\* timer started is in flight
ReconnectPending ==
  \/ ~NoTimerPending
  \/ \E a \in InFlight : attempts[a].origin = "timer"

\* C39: an abnormal closure that schedules a reconnect leaves every consumer
\* stream and the fanout as they are; while a reconnect is pending and the
\* counter stands at the value the abnormal closure gave it (close() was not
\* called since), no step other than a close() or the handling of another
\* closure ends a consumer stream or removes it from the fanout; an open
\* consumer stream is always in
\* the fanout, and every message handled on a connection, the one opened by a
\* reconnect included, is appended to every open consumer stream.
C39_StreamsSurviveReconnect ==
  /\ [][(lastOp' = "abnormalClosure" /\ \E k \in 1..maxReconnectAttempts : Schedules(k)) =>
          streams' = streams /\ fanout' = fanout]_vars
  /\ [][(/\ ReconnectPending
          /\ reconnectAttempts \in 1..(maxReconnectAttempts - 1)
          /\ lastOp' \notin {"close", "close2", "normalClosure", "abnormalClosure"}) =>
          \A i \in ConsumerIds :
            streams[i].status = "open" => streams'[i].status = "open" /\ i \in fanout']_vars
  /\ [](\A i \in ConsumerIds : streams[i].status = "open" => i \in fanout)
  /\ [][(FrameStep /\ running) =>
          \A i \in ConsumerIds :
            streams[i].status = "open" =>
              /\ Len(streams'[i].queue) = Len(streams[i].queue) + 1
              /\ streams'[i].queue[Len(streams'[i].queue)].seq = nFrames']_vars

\* a stream that got a message, then lived through an abnormal closure and the
\* reconnect, has got the message of the connection the reconnect opened
C39_MessageAfterReconnect ==
  \E i \in ConsumerIds :
    /\ SessionOpen /\ ws = 2
    /\ abnormalRun = 1
    /\ streams[i].status = "open"
    /\ Len(streams[i].queue) = 2
    /\ streams[i].queue[1].seq = 1 /\ streams[i].queue[2].seq = 2
    /\ sockets[1].readyState = "CLOSED"

\* C40: a useCallback() loop has invoked the callback exactly once, in order,
\* with every value it has taken off its stream (none is dropped), and a loop
\* that was reading ends only in a step after which its stream has ended, that
\* is, with the fanout closed by a terminal closure: never while its stream is
\* still open for a reconnect.  (The first part includes the loop that has
\* ended: the value its last read returned was passed to the callback.)
C40_LoopDeliversAll ==
  /\ [](\A i \in ConsumerIds : loops[i].pc # "none" => Invoked(i) = ReadByLoop(i))
  /\ [][\A i \in ConsumerIds :
          (loops[i].pc = "reading" /\ loops'[i].pc # "reading") =>
             streams'[i].status = "closed"]_vars

TypeOK ==
  /\ running \in BOOLEAN
  /\ ws \in {0} \cup AttemptIds
  /\ reconnectAttempts \in 0..maxReconnectAttempts
  /\ connectionPromise \in {0} \cup AttemptIds
  /\ chunkStreams \in [StreamIds -> {0} \cup SubIds]
  /\ fanout \subseteq ConsumerIds
  /\ tokenKey \in BOOLEAN
  /\ platform \in {"ok", "nows", "badurl"}
  /\ \A a \in AttemptIds :
       /\ attempts[a].pc \in {"none", "derive", "wsurl", "waiting", "rejected", "done"}
       /\ attempts[a].origin \in {"none", "user", "timer"}
       /\ sockets[a].readyState \in {"none", "CONNECTING", "OPEN", "CLOSING", "CLOSED"}
       /\ sockets[a].closeDue \in {"no", "notified", "silent"}
       /\ sockets[a].token \in {"none", "given", "derived"}
       /\ sockets[a].closes \in 0..1
  /\ \A k \in 1..maxReconnectAttempts : timers[k] \in Nat
  /\ \A c \in CallIds : calls[c].status \in {"none", "pending", "resolved", "rejected"}
  /\ \A i \in ConsumerIds : streams[i].status \in {"none", "open", "closed", "cancelled"}
  /\ \A i \in fanout : streams[i].status = "open"
  /\ \A s \in SubIds : subs[s].state \in {"none", "open", "closed", "cancelled"}
  /\ nFrames \in 0..(IF MaxFrames > MaxSubs THEN MaxFrames ELSE MaxSubs)
  /\ lastFrame \in AllFrames \cup {NoFrame}
  /\ \A v \in validating : v.frame \in DataFrames /\ v.seq \in 1..nFrames
  /\ \A k \in 1..Len(written) : written[k].seq \in 1..nFrames
  /\ userOps \in 0..MaxUserOps
  /\ closed \in {"no", "yes", "timer"}
  /\ lastOp \in {"other", "close", "close2", "normalClosure", "abnormalClosure",
                  "enqueueFailed", "fanoutClose"}
  /\ lastDerive \in {"none", "key", "nokey", "fail"}
  /\ abnormalRun \in 0..ReconnectRun

====
